---- MODULE Spec2Model ----
(***************************************************************************)
(* Producer-consumer simulation engine: the reducer of                    *)
(* src/hooks/useSimulation.ts over the records of src/types/simulation.ts. *)
(* Every reducer case is an operator from a state record to a state       *)
(* record; the actions dispatch those operators on the live state.        *)
(*                                                                         *)
(* Conventions.  An optional field that is undefined or absent is the     *)
(* string Undefined (the code only ever tests such fields for truthiness, *)
(* and JSON.stringify drops them).  startTime null is Null.  Speeds are    *)
(* in tenths (0.5 is 5, 3.0 is 30).  Quotients computed in floating point  *)
(* by the code are kept as reduced fractions.  The semaphore and process   *)
(* records are mutated in place by the code and the reducer then returns  *)
(* them; the operators return the records as they are after the call.     *)
(***************************************************************************)
EXTENDS Integers, Sequences, FiniteSets, TLC

\* Bounds of the explored configurations and of the length of a run.
MaxBuf == 2
MaxProd == 2
MaxCons == 2
MaxSteps == 10
MaxObjects == 16

\* Ranges accepted by isValidConfig and SET_SPEED.
MinBufferSize == 1
MaxBufferSize == 10
MinProcessCount == 1
MaxProcessCount == 5
MinSpeed == 5
MaxSpeed == 30

Undefined == "undefined"
Null == 0

----------------------------------------------------------------------------
\* Arithmetic helpers

RECURSIVE GCD(_, _)
GCD(a, b) == IF b = 0 THEN a ELSE GCD(b, a % b)

\* The quotient n / d (d > 0) as a reduced fraction.
Quotient(n, d) ==
  LET g == GCD(n, d) IN [num |-> n \div g, den |-> d \div g]

\* A const binding: Body applied to the value of v, v evaluated once.
With(v, Body(_)) == CHOOSE y \in {Body(x) : x \in {v}} : TRUE

\* The first index of seq that satisfies Test, 0 when there is none
\* (Array.prototype.find returning undefined).
FirstIndex(seq, Test(_)) ==
  IF \E i \in 1..Len(seq) : Test(seq[i])
  THEN CHOOSE i \in 1..Len(seq) :
         /\ Test(seq[i])
         /\ \A j \in 1..(i - 1) : ~Test(seq[j])
  ELSE 0

----------------------------------------------------------------------------
\* IEEE 754 double precision, for the non-negative numbers the statistics
\* hold.  A double is mantissa * 2^exponent, the mantissa a natural number
\* of Precision bits written most significant bit first (<<>> for zero);
\* natural numbers of any size are bit sequences of the same kind.

Precision == 53

Double(m, e) == [mantissa |-> m, exponent |-> e]

Zero == Double(<<>>, 0)

\* Bits handled together in one step of the arithmetic.
ChunkBits == 20

\* The natural number v < 2^w as w bits.
valueBits(v, w) == [j \in 1..w |-> (v \div 2^(w - j)) % 2]

\* The natural number that at most ChunkBits bits m write.
RECURSIVE bitsValue(_)
bitsValue(m) ==
  IF Len(m) = 0 THEN 0
  ELSE IF Len(m) = 1 THEN m[1]
  ELSE bitsValue(SubSeq(m, 1, Len(m) \div 2)) * 2^(Len(m) - Len(m) \div 2)
       + bitsValue(SubSeq(m, Len(m) \div 2 + 1, Len(m)))

\* m without its leading zeros.
strip(m) ==
  IF \E i \in 1..Len(m) : m[i] = 1
  THEN SubSeq(m, CHOOSE i \in 1..Len(m) :
                   m[i] = 1 /\ \A j \in 1..(i - 1) : m[j] = 0,
              Len(m))
  ELSE <<>>

\* The natural number c < 2^30 in binary.
natBits(c) == strip(valueBits(c, 30))

zeros(k) == [i \in 1..k |-> 0]

\* m * k + c, exactly, for k <= 100 and c < 2^27: the lowest chunk of m is
\* multiplied and the carry goes to the rest.
RECURSIVE mulAdd(_, _, _)
mulAdd(m, k, c) ==
  IF m = <<>>
  THEN natBits(c)
  ELSE With(IF Len(m) < ChunkBits THEN Len(m) ELSE ChunkBits, LAMBDA w :
         With(bitsValue(SubSeq(m, Len(m) - w + 1, Len(m))) * k + c,
           LAMBDA t :
             mulAdd(SubSeq(m, 1, Len(m) - w), k, t \div 2^w)
               \o valueBits(t % 2^w, w)))

\* a < b for two naturals without leading zeros.
lessBits(a, b) ==
  \/ Len(a) < Len(b)
  \/ /\ Len(a) = Len(b)
     /\ \E i \in 1..Len(a) :
          /\ a[i] < b[i]
          /\ \A j \in 1..(i - 1) : a[j] = b[j]

\* Round to nearest, ties to even: m holds the Precision bits kept, guard is
\* the first bit dropped and sticky tells whether any later one is set.
roundNearestEven(m, e, guard, sticky) ==
  IF guard = 1 /\ (sticky \/ m[Len(m)] = 1)
  THEN With(mulAdd(m, 1, 1), LAMBDA up :
         IF Len(up) > Len(m)
         THEN Double(SubSeq(up, 1, Len(m)), e + 1)
         ELSE Double(up, e))
  ELSE Double(m, e)

\* 2^k modulo n, by repeated squaring.
RECURSIVE pow2mod(_, _)
pow2mod(k, n) ==
  IF k = 0 THEN 1 % n
  ELSE IF k % 2 = 0
  THEN With(pow2mod(k \div 2, n), LAMBDA h : (h * h) % n)
  ELSE (2 * pow2mod(k - 1, n)) % n

\* The remainder left after the first k bits of r / n (0 <= r < n), and
\* those bits: long division, the remainder doubled at every bit.
divRem(r, n, k) == (r * pow2mod(k, n)) % n

divBits(r, n, k) ==
  [i \in 1..k |-> IF 2 * divRem(r, n, i - 1) >= n THEN 1 ELSE 0]

\* The least s with o * 2^s >= n.
RECURSIVE shiftFor(_, _)
shiftFor(o, n) == IF o >= n THEN 0 ELSE 1 + shiftFor(2 * o, n)

\* The double o / n for integers 0 <= o <= n, n > 0.
divide(o, n) ==
  IF o = 0 THEN Zero
  ELSE With(shiftFor(o, n), LAMBDA s :
         With(divRem(o * 2^s - n, n, Precision - 1), LAMBDA rem :
           roundNearestEven(
             <<1>> \o divBits(o * 2^s - n, n, Precision - 1),
             0 - s - (Precision - 1),
             IF 2 * rem >= n THEN 1 ELSE 0,
             (2 * rem # 0) /\ (2 * rem # n))))

\* The double d * k for a small natural k.
times(d, k) ==
  IF d.mantissa = <<>> \/ k = 0 THEN Zero
  ELSE With(strip(mulAdd(d.mantissa, k, 0)), LAMBDA product :
         IF Len(product) <= Precision
         THEN Double(product \o zeros(Precision - Len(product)),
                     d.exponent - (Precision - Len(product)))
         ELSE roundNearestEven(
                SubSeq(product, 1, Precision),
                d.exponent + (Len(product) - Precision),
                product[Precision + 1],
                \E i \in (Precision + 2)..Len(product) : product[i] = 1))

----------------------------------------------------------------------------
\* src/types/simulation.ts

DEFAULT_CONFIG ==
  [bufferSize |-> 5, producerCount |-> 2, consumerCount |-> 2,
   animationSpeed |-> 10]

\* typeof config.field === 'number': a Partial<SimulationConfig> is a record
\* that may lack fields, and the fields it has are numbers.
isNumberField(c, field) == field \in DOMAIN c

\* isValidConfig without the upper limits.
isValidConfig_noUpperLimit(c) ==
  /\ isNumberField(c, "bufferSize")
  /\ c.bufferSize >= MinBufferSize
  /\ isNumberField(c, "producerCount")
  /\ c.producerCount >= MinProcessCount
  /\ isNumberField(c, "consumerCount")
  /\ c.consumerCount >= MinProcessCount
  /\ isNumberField(c, "animationSpeed")
  /\ c.animationSpeed >= MinSpeed

isValidConfig(c) ==
  /\ isNumberField(c, "bufferSize")
  /\ c.bufferSize >= MinBufferSize
  /\ c.bufferSize <= MaxBufferSize
  /\ isNumberField(c, "producerCount")
  /\ c.producerCount >= MinProcessCount
  /\ c.producerCount <= MaxProcessCount
  /\ isNumberField(c, "consumerCount")
  /\ c.consumerCount >= MinProcessCount
  /\ c.consumerCount <= MaxProcessCount
  /\ isNumberField(c, "animationSpeed")
  /\ c.animationSpeed >= MinSpeed
  /\ c.animationSpeed <= MaxSpeed

NoItem == [id |-> Undefined, producedBy |-> Undefined, timestamp |-> 0]

newProcess(prefix, kind, i) ==
  [id |-> prefix \o ToString(i), type |-> kind, state |-> "ready",
   currentOperation |-> Undefined, waitingOn |-> Undefined,
   itemsProcessed |-> 0, totalWaitTime |-> 0]

createInitialState(c) ==
  [animationSpeed |-> c.animationSpeed,
   config |-> c,
   semaphores |->
     << [name |-> "empty", value |-> c.bufferSize, waitingQueue |-> <<>>],
        [name |-> "full", value |-> 0, waitingQueue |-> <<>>],
        [name |-> "mutex", value |-> 1, waitingQueue |-> <<>>] >>,
   processes |->
     [i \in 1..(c.producerCount + c.consumerCount) |->
        IF i <= c.producerCount
        THEN newProcess("P", "producer", i)
        ELSE newProcess("C", "consumer", i - c.producerCount)],
   buffer |->
     [i \in 1..c.bufferSize |->
        [id |-> i - 1, occupied |-> FALSE, item |-> NoItem]],
   currentStep |-> 0,
   isPlaying |-> FALSE,
   history |-> <<>>,
   startTime |-> Null,
   statistics |->
     [totalItemsProduced |-> 0, totalItemsConsumed |-> 0,
      bufferUtilization |-> Quotient(0, 1),
      averageWaitTime |-> Quotient(0, 1)]]

\* JSON.parse(JSON.stringify(x)) of the three arrays: a record-by-record
\* rebuild that keeps every defined field and leaves the undefined ones
\* undefined.
cloneSemaphores(sems) ==
  [i \in 1..Len(sems) |->
     [name |-> sems[i].name, value |-> sems[i].value,
      waitingQueue |->
        [j \in 1..Len(sems[i].waitingQueue) |-> sems[i].waitingQueue[j]]]]

cloneProcesses(procs) ==
  [i \in 1..Len(procs) |->
     [id |-> procs[i].id, type |-> procs[i].type, state |-> procs[i].state,
      currentOperation |-> procs[i].currentOperation,
      waitingOn |-> procs[i].waitingOn,
      itemsProcessed |-> procs[i].itemsProcessed,
      totalWaitTime |-> procs[i].totalWaitTime]]

cloneBuffer(buf) ==
  [i \in 1..Len(buf) |->
     [id |-> buf[i].id, occupied |-> buf[i].occupied,
      item |-> IF buf[i].item = NoItem THEN NoItem
               ELSE [id |-> buf[i].item.id,
                     producedBy |-> buf[i].item.producedBy,
                     timestamp |-> buf[i].item.timestamp]]]

createStateSnapshot(st, stepNumber, action, processId) ==
  [semaphores |-> cloneSemaphores(st.semaphores),
   processes |-> cloneProcesses(st.processes),
   buffer |-> cloneBuffer(st.buffer),
   startTime |-> st.startTime,
   statistics |-> st.statistics,
   stepNumber |-> stepNumber, action |-> action, processId |-> processId]

occupiedCount(buf) == Cardinality({i \in 1..Len(buf) : buf[i].occupied})

\* (occupiedSlots / buffer.length) * 100 as the exact quotient; the double
\* JavaScript makes of it is bufferUtilizationDouble.
calculateBufferUtilization(buf) ==
  IF Len(buf) > 0 THEN Quotient(occupiedCount(buf) * 100, Len(buf))
  ELSE Quotient(0, 1)

\* bufferUtilizationDouble with the last bit of the mantissa cleared.
bufferUtilizationDouble_truncates(buf) ==
  IF Len(buf) > 0
  THEN With(times(divide(occupiedCount(buf), Len(buf)), 100), LAMBDA u :
         IF u.mantissa # <<>> /\ u.mantissa[Precision] = 1
         THEN Double([u.mantissa EXCEPT ![Precision] = 0], u.exponent)
         ELSE u)
  ELSE Zero

\* calculateBufferUtilization in the arithmetic of JavaScript: the division
\* is rounded to a double, then the product by 100 is.
bufferUtilizationDouble(buf) ==
  IF Len(buf) > 0
  THEN times(divide(occupiedCount(buf), Len(buf)), 100)
  ELSE Zero

\* Index of the semaphore called name, 0 for undefined.
getSemaphoreByName(sems, name) ==
  LET Named(s) == s.name = name IN FirstIndex(sems, Named)

\* Index of the process with this id, 0 for undefined.
getProcessById(procs, id) ==
  LET HasId(p) == p.id = id IN FirstIndex(procs, HasId)

----------------------------------------------------------------------------
\* src/hooks/useSimulation.ts: semaphore primitives

\* waitSemaphore that takes the permit and leaves the process state as it
\* was.
waitSemaphore_staysReady(sems, procs, processId, semaphoreName) ==
  LET si == getSemaphoreByName(sems, semaphoreName)
      pi == getProcessById(procs, processId)
  IN IF si = 0 \/ pi = 0
     THEN [semaphores |-> sems, processes |-> procs, success |-> FALSE]
     ELSE IF sems[si].value > 0
     THEN [semaphores |-> [sems EXCEPT ![si].value = @ - 1],
           processes |-> [procs EXCEPT ![pi].waitingOn = Undefined],
           success |-> TRUE]
     ELSE [semaphores |->
             [sems EXCEPT ![si].waitingQueue =
                IF \E j \in 1..Len(@) : @[j] = processId
                THEN @ ELSE Append(@, processId)],
           processes |-> [procs EXCEPT ![pi].state = "blocked",
                                       ![pi].waitingOn = semaphoreName],
           success |-> FALSE]

\* waitSemaphore that acquires without taking the permit.
waitSemaphore_noDecrement(sems, procs, processId, semaphoreName) ==
  LET si == getSemaphoreByName(sems, semaphoreName)
      pi == getProcessById(procs, processId)
  IN IF si = 0 \/ pi = 0
     THEN [semaphores |-> sems, processes |-> procs, success |-> FALSE]
     ELSE IF sems[si].value > 0
     THEN [semaphores |-> sems,
           processes |-> [procs EXCEPT ![pi].state = "running",
                                       ![pi].waitingOn = Undefined],
           success |-> TRUE]
     ELSE [semaphores |->
             [sems EXCEPT ![si].waitingQueue =
                IF \E j \in 1..Len(@) : @[j] = processId
                THEN @ ELSE Append(@, processId)],
           processes |-> [procs EXCEPT ![pi].state = "blocked",
                                       ![pi].waitingOn = semaphoreName],
           success |-> FALSE]

waitSemaphore(sems, procs, processId, semaphoreName) ==
  LET si == getSemaphoreByName(sems, semaphoreName)
      pi == getProcessById(procs, processId)
  IN IF si = 0 \/ pi = 0
     THEN [semaphores |-> sems, processes |-> procs, success |-> FALSE]
     ELSE IF sems[si].value > 0
     THEN [semaphores |-> [sems EXCEPT ![si].value = @ - 1],
           processes |-> [procs EXCEPT ![pi].state = "running",
                                       ![pi].waitingOn = Undefined],
           success |-> TRUE]
     ELSE [semaphores |->
             [sems EXCEPT ![si].waitingQueue =
                IF \E j \in 1..Len(@) : @[j] = processId
                THEN @ ELSE Append(@, processId)],
           processes |-> [procs EXCEPT ![pi].state = "blocked",
                                       ![pi].waitingOn = semaphoreName],
           success |-> FALSE]

\* signalSemaphore that wakes the head waiter and leaves the permit on the
\* semaphore.
signalSemaphore_leavesPermit(sems, procs, semaphoreName) ==
  LET si == getSemaphoreByName(sems, semaphoreName)
  IN IF si = 0
     THEN [semaphores |-> sems, processes |-> procs]
     ELSE LET incremented == [sems EXCEPT ![si].value = @ + 1]
          IN IF Len(sems[si].waitingQueue) > 0
             THEN LET waitingProcessId == Head(sems[si].waitingQueue)
                      shifted ==
                        [incremented EXCEPT ![si].waitingQueue = Tail(@)]
                      wi == getProcessById(procs, waitingProcessId)
                  IN IF wi # 0
                     THEN [semaphores |-> shifted,
                           processes |->
                             [procs EXCEPT ![wi].state = "ready",
                                           ![wi].waitingOn = Undefined]]
                     ELSE [semaphores |-> shifted, processes |-> procs]
             ELSE [semaphores |-> incremented, processes |-> procs]

\* signalSemaphore that wakes the head waiter and leaves its waitingOn set.
signalSemaphore_keepsWaitingOn(sems, procs, semaphoreName) ==
  LET si == getSemaphoreByName(sems, semaphoreName)
  IN IF si = 0
     THEN [semaphores |-> sems, processes |-> procs]
     ELSE LET incremented == [sems EXCEPT ![si].value = @ + 1]
          IN IF Len(sems[si].waitingQueue) > 0
             THEN LET waitingProcessId == Head(sems[si].waitingQueue)
                      shifted ==
                        [incremented EXCEPT ![si].waitingQueue = Tail(@)]
                      wi == getProcessById(procs, waitingProcessId)
                  IN IF wi # 0
                     THEN [semaphores |-> [shifted EXCEPT ![si].value = @ - 1],
                           processes |-> [procs EXCEPT ![wi].state = "ready"]]
                     ELSE [semaphores |-> shifted, processes |-> procs]
             ELSE [semaphores |-> incremented, processes |-> procs]

\* signalSemaphore that wakes the process queued last.
signalSemaphore_wakesLast(sems, procs, semaphoreName) ==
  LET si == getSemaphoreByName(sems, semaphoreName)
  IN IF si = 0
     THEN [semaphores |-> sems, processes |-> procs]
     ELSE LET incremented == [sems EXCEPT ![si].value = @ + 1]
              queue == sems[si].waitingQueue
          IN IF Len(queue) > 0
             THEN LET waitingProcessId == queue[Len(queue)]
                      shifted ==
                        [incremented EXCEPT
                           ![si].waitingQueue = SubSeq(queue, 1, Len(queue) - 1)]
                      wi == getProcessById(procs, waitingProcessId)
                  IN IF wi # 0
                     THEN [semaphores |-> [shifted EXCEPT ![si].value = @ - 1],
                           processes |->
                             [procs EXCEPT ![wi].state = "ready",
                                           ![wi].waitingOn = Undefined]]
                     ELSE [semaphores |-> shifted, processes |-> procs]
             ELSE [semaphores |-> incremented, processes |-> procs]

\* signalSemaphore that wakes the head waiter and leaves it in the queue.
signalSemaphore_noShift(sems, procs, semaphoreName) ==
  LET si == getSemaphoreByName(sems, semaphoreName)
  IN IF si = 0
     THEN [semaphores |-> sems, processes |-> procs]
     ELSE IF Len(sems[si].waitingQueue) > 0
     THEN LET wi == getProcessById(procs, Head(sems[si].waitingQueue))
          IN IF wi # 0
             THEN [semaphores |-> sems,
                   processes |-> [procs EXCEPT ![wi].state = "ready",
                                               ![wi].waitingOn = Undefined]]
             ELSE [semaphores |-> [sems EXCEPT ![si].value = @ + 1],
                   processes |-> procs]
     ELSE [semaphores |-> [sems EXCEPT ![si].value = @ + 1],
           processes |-> procs]

signalSemaphore(sems, procs, semaphoreName) ==
  LET si == getSemaphoreByName(sems, semaphoreName)
  IN IF si = 0
     THEN [semaphores |-> sems, processes |-> procs]
     ELSE LET incremented == [sems EXCEPT ![si].value = @ + 1]
          IN IF Len(sems[si].waitingQueue) > 0
             THEN LET waitingProcessId == Head(sems[si].waitingQueue)
                      shifted ==
                        [incremented EXCEPT ![si].waitingQueue = Tail(@)]
                      wi == getProcessById(procs, waitingProcessId)
                  IN IF wi # 0
                     THEN [semaphores |-> [shifted EXCEPT ![si].value = @ - 1],
                           processes |->
                             [procs EXCEPT ![wi].state = "ready",
                                           ![wi].waitingOn = Undefined]]
                     ELSE [semaphores |-> shifted, processes |-> procs]
             ELSE [semaphores |-> incremented, processes |-> procs]

----------------------------------------------------------------------------
\* src/hooks/useSimulation.ts: micro-step evaluator

isFree(slot) == ~slot.occupied

isOccupied(slot) == slot.occupied

\* itemId numbered by the step being recorded.
itemId_nextStep(step, processId) ==
  "item-" \o ToString(step + 1) \o "-" \o processId

itemId(step, processId) == "item-" \o ToString(step) \o "-" \o processId

\* The object { success, newState, action } a micro-step returns.
StepResult(success, newState, action) ==
  [action |-> action, success |-> success, newState |-> newState]

\* The result returned when no branch of a micro-step applies.
noStep(st) == StepResult(FALSE, st, "")

\* The state whose semaphore and process records a wait has changed.
afterWait(st, w) ==
  [st EXCEPT !.semaphores = w.semaphores, !.processes = w.processes]

\* produce deriving the item id from the clock instead of the step counter.
produce_idFromClock(st, pi, w, slot, t) ==
  LET processId == st.processes[pi].id
      newBuffer ==
        [st.buffer EXCEPT
           ![slot].occupied = TRUE,
           ![slot].item = [id |-> itemId(t, processId),
                           producedBy |-> processId,
                           timestamp |-> t]]
      updated ==
        [w.processes EXCEPT ![pi].itemsProcessed = @ + 1,
                            ![pi].currentOperation = Undefined,
                            ![pi].state = "ready"]
  IN With(signalSemaphore(w.semaphores, updated, "mutex"),
       LAMBDA afterMutex :
     With(signalSemaphore(afterMutex.semaphores, afterMutex.processes, "full"),
       LAMBDA final :
         StepResult(TRUE,
           [st EXCEPT
               !.semaphores = final.semaphores,
               !.processes = final.processes,
               !.buffer = newBuffer,
               !.statistics =
                 [@ EXCEPT !.totalItemsProduced = @ + 1,
                           !.bufferUtilization =
                             calculateBufferUtilization(newBuffer)]],
           processId \o " produced an item")))

\* produce signalling a mutex whose wait was not applied to the semaphores.
produce_signalsUnheldMutex(st, pi, w, slot, t) ==
  LET processId == st.processes[pi].id
      newBuffer ==
        [st.buffer EXCEPT
           ![slot].occupied = TRUE,
           ![slot].item = [id |-> itemId(st.currentStep, processId),
                           producedBy |-> processId,
                           timestamp |-> t]]
      updated ==
        [w.processes EXCEPT ![pi].itemsProcessed = @ + 1,
                            ![pi].currentOperation = Undefined,
                            ![pi].state = "ready"]
  IN With(signalSemaphore(st.semaphores, updated, "mutex"),
       LAMBDA afterMutex :
     With(signalSemaphore(afterMutex.semaphores, afterMutex.processes, "full"),
       LAMBDA final :
         StepResult(TRUE,
           [st EXCEPT
               !.semaphores = final.semaphores,
               !.processes = final.processes,
               !.buffer = newBuffer,
               !.statistics =
                 [@ EXCEPT !.totalItemsProduced = @ + 1,
                           !.bufferUtilization =
                             calculateBufferUtilization(newBuffer)]],
           processId \o " produced an item")))

\* Steps 3 to 5 of a producer: w is the successful wait on mutex, slot the
\* first free slot, t the value of Date.now().
produce(st, pi, w, slot, t) ==
  LET processId == st.processes[pi].id
      newBuffer ==
        [st.buffer EXCEPT
           ![slot].occupied = TRUE,
           ![slot].item = [id |-> itemId(st.currentStep, processId),
                           producedBy |-> processId,
                           timestamp |-> t]]
      updated ==
        [w.processes EXCEPT ![pi].itemsProcessed = @ + 1,
                            ![pi].currentOperation = Undefined,
                            ![pi].state = "ready"]
  IN With(signalSemaphore(w.semaphores, updated, "mutex"),
       LAMBDA afterMutex :
     With(signalSemaphore(afterMutex.semaphores, afterMutex.processes, "full"),
       LAMBDA final :
         StepResult(TRUE,
           [st EXCEPT
               !.semaphores = final.semaphores,
               !.processes = final.processes,
               !.buffer = newBuffer,
               !.statistics =
                 [@ EXCEPT !.totalItemsProduced = @ + 1,
                           !.bufferUtilization =
                             calculateBufferUtilization(newBuffer)]],
           processId \o " produced an item")))

executeProducerStep(st, processId, t) ==
  LET pi == getProcessById(st.processes, processId)
  IN IF pi = 0 \/ st.processes[pi].type # "producer"
     THEN noStep(st)
     ELSE IF st.processes[pi].currentOperation = Undefined
     THEN \* Step 1: wait for an empty slot
       With(waitSemaphore(st.semaphores, st.processes, processId, "empty"),
         LAMBDA w :
           IF w.success
           THEN StepResult(TRUE,
                  [st EXCEPT !.semaphores = w.semaphores,
                              !.processes =
                                [w.processes EXCEPT
                                   ![pi].currentOperation = "producing"]],
                  processId \o " acquired empty semaphore")
           ELSE StepResult(FALSE,
                  afterWait(st, w),
                  processId \o " waiting for empty slot"))
     ELSE IF /\ st.processes[pi].currentOperation = "producing"
             /\ st.processes[pi].waitingOn = Undefined
     THEN \* Step 2: wait for mutex, then produce and signal
       With(waitSemaphore(st.semaphores, st.processes, processId, "mutex"),
         LAMBDA w :
           IF w.success
           THEN LET slot == FirstIndex(st.buffer, isFree)
                IN IF slot # 0
                   THEN produce(st, pi, w, slot, t)
                   ELSE \* no free slot: the wait has already changed the
                        \* records of the state, which is returned as it is
                        noStep(afterWait(st, w))
           ELSE StepResult(FALSE,
                  afterWait(st, w),
                  processId \o " waiting for mutex"))
     ELSE noStep(st)

\* consume that signals empty and never releases the mutex.
consume_holdsMutex(st, pi, w, slot) ==
  LET processId == st.processes[pi].id
      newBuffer ==
        [st.buffer EXCEPT ![slot].occupied = FALSE, ![slot].item = NoItem]
      updated ==
        [w.processes EXCEPT ![pi].itemsProcessed = @ + 1,
                            ![pi].currentOperation = Undefined,
                            ![pi].state = "ready"]
  IN With(signalSemaphore(w.semaphores, updated, "empty"),
       LAMBDA final :
         StepResult(TRUE,
           [st EXCEPT
               !.semaphores = final.semaphores,
               !.processes = final.processes,
               !.buffer = newBuffer,
               !.statistics =
                 [@ EXCEPT !.totalItemsConsumed = @ + 1,
                           !.bufferUtilization =
                             calculateBufferUtilization(newBuffer)]],
           processId \o " consumed an item"))

\* consume that clears the last occupied slot instead of the first.
consume_clearsLast(st, pi, w, slot) ==
  LET processId == st.processes[pi].id
      last == CHOOSE k \in 1..Len(st.buffer) :
                /\ st.buffer[k].occupied
                /\ \A j \in (k + 1)..Len(st.buffer) : ~st.buffer[j].occupied
      newBuffer ==
        [st.buffer EXCEPT ![last].occupied = FALSE, ![last].item = NoItem]
      updated ==
        [w.processes EXCEPT ![pi].itemsProcessed = @ + 1,
                            ![pi].currentOperation = Undefined,
                            ![pi].state = "ready"]
  IN With(signalSemaphore(w.semaphores, updated, "mutex"),
       LAMBDA afterMutex :
     With(signalSemaphore(afterMutex.semaphores, afterMutex.processes, "empty"),
       LAMBDA final :
         StepResult(TRUE,
           [st EXCEPT
               !.semaphores = final.semaphores,
               !.processes = final.processes,
               !.buffer = newBuffer,
               !.statistics =
                 [@ EXCEPT !.totalItemsConsumed = @ + 1,
                           !.bufferUtilization =
                             calculateBufferUtilization(newBuffer)]],
           processId \o " consumed an item")))

\* consume that leaves the slot occupied.
consume_keepsSlot(st, pi, w, slot) ==
  LET processId == st.processes[pi].id
      updated ==
        [w.processes EXCEPT ![pi].itemsProcessed = @ + 1,
                            ![pi].currentOperation = Undefined,
                            ![pi].state = "ready"]
  IN With(signalSemaphore(w.semaphores, updated, "mutex"),
       LAMBDA afterMutex :
     With(signalSemaphore(afterMutex.semaphores, afterMutex.processes, "empty"),
       LAMBDA final :
         StepResult(TRUE,
           [st EXCEPT
               !.semaphores = final.semaphores,
               !.processes = final.processes,
               !.statistics =
                 [@ EXCEPT !.totalItemsConsumed = @ + 1]],
           processId \o " consumed an item")))

\* Steps 3 to 5 of a consumer: w is the successful wait on mutex, slot the
\* first occupied slot.
consume(st, pi, w, slot) ==
  LET processId == st.processes[pi].id
      newBuffer ==
        [st.buffer EXCEPT ![slot].occupied = FALSE, ![slot].item = NoItem]
      updated ==
        [w.processes EXCEPT ![pi].itemsProcessed = @ + 1,
                            ![pi].currentOperation = Undefined,
                            ![pi].state = "ready"]
  IN With(signalSemaphore(w.semaphores, updated, "mutex"),
       LAMBDA afterMutex :
     With(signalSemaphore(afterMutex.semaphores, afterMutex.processes, "empty"),
       LAMBDA final :
         StepResult(TRUE,
           [st EXCEPT
               !.semaphores = final.semaphores,
               !.processes = final.processes,
               !.buffer = newBuffer,
               !.statistics =
                 [@ EXCEPT !.totalItemsConsumed = @ + 1,
                           !.bufferUtilization =
                             calculateBufferUtilization(newBuffer)]],
           processId \o " consumed an item")))

executeConsumerStep(st, processId) ==
  LET pi == getProcessById(st.processes, processId)
  IN IF pi = 0 \/ st.processes[pi].type # "consumer"
     THEN noStep(st)
     ELSE IF st.processes[pi].currentOperation = Undefined
     THEN \* Step 1: wait for a full slot
       With(waitSemaphore(st.semaphores, st.processes, processId, "full"),
         LAMBDA w :
           IF w.success
           THEN StepResult(TRUE,
                  [st EXCEPT !.semaphores = w.semaphores,
                              !.processes =
                                [w.processes EXCEPT
                                   ![pi].currentOperation = "consuming"]],
                  processId \o " acquired full semaphore")
           ELSE StepResult(FALSE,
                  afterWait(st, w),
                  processId \o " waiting for full slot"))
     ELSE IF /\ st.processes[pi].currentOperation = "consuming"
             /\ st.processes[pi].waitingOn = Undefined
     THEN \* Step 2: wait for mutex, then consume and signal
       With(waitSemaphore(st.semaphores, st.processes, processId, "mutex"),
         LAMBDA w :
           IF w.success
           THEN LET slot == FirstIndex(st.buffer, isOccupied)
                IN IF slot # 0
                   THEN consume(st, pi, w, slot)
                   ELSE noStep(afterWait(st, w))
           ELSE StepResult(FALSE,
                  afterWait(st, w),
                  processId \o " waiting for mutex"))
     ELSE noStep(st)

----------------------------------------------------------------------------
\* src/hooks/useSimulation.ts: simulationReducer, one operator per case

isReadyOrRunning(p) == p.state = "ready" \/ p.state = "running"

\* slice(0, n) losing the last element it should keep.
slice_dropsLast(seq, n) ==
  SubSeq(seq, 1, (IF n > Len(seq) THEN Len(seq) ELSE n) - 1)

\* Array.prototype.slice(0, n) for n >= 0.
slice(seq, n) == SubSeq(seq, 1, IF n > Len(seq) THEN Len(seq) ELSE n)

\* SET_CONFIG keeping the current speed, as RESET_SIMULATION does.
SET_CONFIG_keepsSpeed(st, c) ==
  IF ~isValidConfig(c) THEN st
  ELSE [createInitialState(c) EXCEPT !.animationSpeed = st.animationSpeed]

SET_CONFIG(st, c) ==
  IF ~isValidConfig(c) THEN st
  ELSE [createInitialState(c) EXCEPT !.animationSpeed = c.animationSpeed]

START_SIMULATION(st, t) ==
  IF st.isPlaying THEN st
  ELSE [st EXCEPT !.isPlaying = TRUE,
                  !.startTime = IF @ # Null THEN @ ELSE t]

PAUSE_SIMULATION(st) ==
  IF ~st.isPlaying THEN st ELSE [st EXCEPT !.isPlaying = FALSE]

RECURSIVE SumWait(_, _)
SumWait(procs, i) ==
  IF i = 0 THEN 0 ELSE procs[i].totalWaitTime + SumWait(procs, i - 1)

\* recordStep taking the snapshot of the state before the step.
recordStep_snapshotsBefore(st, processId, stepResult) ==
  LET ns == stepResult.newState
      snapshot ==
        createStateSnapshot(st, st.currentStep + 1, stepResult.action,
                            processId)
      averageWaitTime ==
        IF Len(ns.processes) > 0
        THEN Quotient(SumWait(ns.processes, Len(ns.processes)),
                      Len(ns.processes))
        ELSE Quotient(0, 1)
  IN [ns EXCEPT
        !.currentStep = st.currentStep + 1,
        !.history = Append(st.history, snapshot),
        !.statistics = [@ EXCEPT !.averageWaitTime = averageWaitTime]]

\* recordStep appending the snapshot without advancing currentStep.
recordStep_keepsStep(st, processId, stepResult) ==
  LET ns == stepResult.newState
      snapshot ==
        createStateSnapshot(ns, st.currentStep + 1, stepResult.action,
                            processId)
  IN [ns EXCEPT !.history = Append(st.history, snapshot)]

\* The state returned when the scheduled process has acted or blocked:
\* stepResult with its snapshot appended.
recordStep(st, processId, stepResult) ==
  LET ns == stepResult.newState
      snapshot ==
        createStateSnapshot(ns, st.currentStep + 1, stepResult.action,
                            processId)
      averageWaitTime ==
        IF Len(ns.processes) > 0
        THEN Quotient(SumWait(ns.processes, Len(ns.processes)),
                      Len(ns.processes))
        ELSE Quotient(0, 1)
  IN [ns EXCEPT
        !.currentStep = st.currentStep + 1,
        !.history = Append(st.history, snapshot),
        !.statistics = [@ EXCEPT !.averageWaitTime = averageWaitTime]]

\* STEP_FORWARD that runs the last ready or running process instead of the
\* first.
STEP_FORWARD_lastReady(st, t) ==
  LET first ==
        IF \E i \in 1..Len(st.processes) : isReadyOrRunning(st.processes[i])
        THEN CHOOSE i \in 1..Len(st.processes) :
               /\ isReadyOrRunning(st.processes[i])
               /\ \A j \in (i + 1)..Len(st.processes) :
                    ~isReadyOrRunning(st.processes[j])
        ELSE 0
  IN IF first = 0
     THEN st
     ELSE
       LET processToExecute == st.processes[first]
       IN With(IF processToExecute.type = "producer"
               THEN executeProducerStep(st, processToExecute.id, t)
               ELSE executeConsumerStep(st, processToExecute.id),
            LAMBDA stepResult :
              IF stepResult.success \/ stepResult.action # ""
              THEN recordStep(st, processToExecute.id, stepResult)
              ELSE stepResult.newState)

\* STEP_FORWARD that runs the first blocked process when none is ready.
STEP_FORWARD_retriesBlocked(st, t) ==
  LET ready == FirstIndex(st.processes, isReadyOrRunning)
      first == IF ready # 0 THEN ready
               ELSE IF Len(st.processes) > 0 THEN 1 ELSE 0
  IN IF first = 0
     THEN st
     ELSE
       LET processToExecute == st.processes[first]
       IN With(IF processToExecute.type = "producer"
               THEN executeProducerStep(st, processToExecute.id, t)
               ELSE executeConsumerStep(st, processToExecute.id),
            LAMBDA stepResult :
              IF stepResult.success \/ stepResult.action # ""
              THEN recordStep(st, processToExecute.id, stepResult)
              ELSE stepResult.newState)

\* STEP_FORWARD recording only the micro-steps that succeed.
STEP_FORWARD_successOnly(st, t) ==
  LET first == FirstIndex(st.processes, isReadyOrRunning)
  IN IF first = 0
     THEN st
     ELSE
       LET processToExecute == st.processes[first]
       IN With(IF processToExecute.type = "producer"
               THEN executeProducerStep(st, processToExecute.id, t)
               ELSE executeConsumerStep(st, processToExecute.id),
            LAMBDA stepResult :
              IF stepResult.success
              THEN recordStep(st, processToExecute.id, stepResult)
              ELSE stepResult.newState)

STEP_FORWARD(st, t) ==
  LET first == FirstIndex(st.processes, isReadyOrRunning)
  IN IF first = 0
     THEN st
     ELSE
       LET processToExecute == st.processes[first]
       IN With(IF processToExecute.type = "producer"
               THEN executeProducerStep(st, processToExecute.id, t)
               ELSE executeConsumerStep(st, processToExecute.id),
            LAMBDA stepResult :
              IF stepResult.success \/ stepResult.action # ""
              THEN recordStep(st, processToExecute.id, stepResult)
              ELSE stepResult.newState)

\* backToInitial taking the speed of the configuration instead of the
\* current one.
backToInitial_configSpeed(st) ==
  [createInitialState(st.config) EXCEPT !.isPlaying = st.isPlaying]

\* backToInitial that stops the playback, as RESET_SIMULATION does.
backToInitial_stopsPlaying(st) ==
  [createInitialState(st.config) EXCEPT !.animationSpeed = st.animationSpeed]

\* The state rebuilt by STEP_BACKWARD and JUMP_TO_STEP when there is no
\* snapshot to restore.
backToInitial(st) ==
  [createInitialState(st.config) EXCEPT
     !.animationSpeed = st.animationSpeed,
     !.isPlaying = st.isPlaying]

\* restoreSnapshot that leaves the statistics of the state as they are.
restoreSnapshot_keepsStatistics(st, snap, keep) ==
  [st EXCEPT !.semaphores = cloneSemaphores(snap.semaphores),
             !.processes = cloneProcesses(snap.processes),
             !.buffer = cloneBuffer(snap.buffer),
             !.currentStep = snap.stepNumber,
             !.history = slice(st.history, keep)]

\* restoreSnapshot without the truncation of history.
restoreSnapshot_keepsHistory(st, snap, keep) ==
  [st EXCEPT !.semaphores = cloneSemaphores(snap.semaphores),
             !.processes = cloneProcesses(snap.processes),
             !.buffer = cloneBuffer(snap.buffer),
             !.statistics = snap.statistics,
             !.currentStep = snap.stepNumber]

\* restoreSnapshot that also restores the startTime the snapshot recorded.
restoreSnapshot_withStartTime(st, snap, keep) ==
  [st EXCEPT !.semaphores = cloneSemaphores(snap.semaphores),
             !.processes = cloneProcesses(snap.processes),
             !.buffer = cloneBuffer(snap.buffer),
             !.statistics = snap.statistics,
             !.currentStep = snap.stepNumber,
             !.history = slice(st.history, keep),
             !.startTime = snap.startTime]

restoreSnapshot(st, snap, keep) ==
  [st EXCEPT !.semaphores = cloneSemaphores(snap.semaphores),
             !.processes = cloneProcesses(snap.processes),
             !.buffer = cloneBuffer(snap.buffer),
             !.statistics = snap.statistics,
             !.currentStep = snap.stepNumber,
             !.history = slice(st.history, keep)]

\* STEP_BACKWARD reading history[currentStep - 1] instead of
\* history[currentStep - 2].
STEP_BACKWARD_sameSnapshot(st) ==
  IF Len(st.history) = 0 \/ st.currentStep = 0
  THEN st
  ELSE LET i == st.currentStep
       IN IF i < 1 \/ i > Len(st.history)
          THEN backToInitial(st)
          ELSE restoreSnapshot(st, st.history[i], st.history[i].stepNumber)

STEP_BACKWARD(st) ==
  IF Len(st.history) = 0 \/ st.currentStep = 0
  THEN st
  ELSE LET i == st.currentStep - 1   \* history[currentStep - 2], 1-based
       IN IF i < 1 \/ i > Len(st.history)
          THEN backToInitial(st)
          ELSE restoreSnapshot(st, st.history[i], st.history[i].stepNumber)

\* JUMP_TO_STEP clamping an out-of-range target to the nearest step instead
\* of rejecting it.
JUMP_TO_STEP_clamps(st, targetStep) ==
  IF targetStep <= 0 \/ Len(st.history) = 0
  THEN backToInitial(st)
  ELSE LET target == IF targetStep > Len(st.history)
                     THEN Len(st.history) ELSE targetStep
       IN restoreSnapshot(st, st.history[target], target)

\* JUMP_TO_STEP reading history[targetStep] instead of
\* history[targetStep - 1].
JUMP_TO_STEP_nextSnapshot(st, targetStep) ==
  IF targetStep < 0 \/ targetStep > Len(st.history)
  THEN st
  ELSE IF targetStep = 0
  THEN backToInitial(st)
  ELSE IF targetStep + 1 > Len(st.history)
  THEN st
  ELSE restoreSnapshot(st, st.history[targetStep + 1], targetStep)

JUMP_TO_STEP(st, targetStep) ==
  IF targetStep < 0 \/ targetStep > Len(st.history)
  THEN st
  ELSE IF targetStep = 0
  THEN backToInitial(st)
  ELSE restoreSnapshot(st, st.history[targetStep], targetStep)

\* SET_SPEED rejecting the two limits as well.
SET_SPEED_exclusive(st, speed) ==
  IF speed <= MinSpeed \/ speed >= MaxSpeed THEN st
  ELSE [st EXCEPT !.animationSpeed = speed]

SET_SPEED(st, speed) ==
  IF speed < MinSpeed \/ speed > MaxSpeed THEN st
  ELSE [st EXCEPT !.animationSpeed = speed]

\* RESET_SIMULATION keeping isPlaying, as the jump to step 0 does.
RESET_SIMULATION_keepsPlaying(st) ==
  [createInitialState(st.config) EXCEPT
     !.animationSpeed = st.animationSpeed,
     !.isPlaying = st.isPlaying]

RESET_SIMULATION(st) ==
  [createInitialState(st.config) EXCEPT !.animationSpeed = st.animationSpeed]

----------------------------------------------------------------------------
\* The state machine: useReducer holding the state, commands dispatched on it

VARIABLES config, semaphores, processes, buffer, currentStep, isPlaying,
          animationSpeed, history, startTime, statistics

\* The objects behind the state: JavaScript holds the semaphore, process and
\* slot records and the statistics object by reference.  heap[a] is the
\* content of the object at address a, reduced to a version number that
\* changes when a field of the object is assigned; liveRefs are the objects
\* of the state the reducer returned last and historyRefs those of each
\* snapshot of its history.  recorded keeps what each snapshot held when it
\* was appended; inputRefs and inputValues are the objects of the state
\* given to the last reducer call and what they held before the call.
VARIABLES heap, liveRefs, historyRefs, recorded, inputRefs, inputValues

heapVars == <<heap, liveRefs, historyRefs, recorded, inputRefs, inputValues>>

\* statistics.bufferUtilization as the number JavaScript stores, an IEEE 754
\* double.  The statistics record of the simulation carries the exact
\* quotient instead; the double is followed on its own, under FloatSpec.
VARIABLE bufferUtilization

floatVars == <<bufferUtilization>>

\* The auto-play timer of the useSimulation hook: interval is <<>> when no
\* interval is set and <<d>> when setInterval runs with a delay of d
\* milliseconds; issuer tells who dispatched the last command, the timer
\* callback or the caller of the hook.
VARIABLES interval, issuer

timerVars == <<interval, issuer>>

simulationVars ==
  <<config, semaphores, processes, buffer, currentStep, isPlaying,
    animationSpeed, history, startTime, statistics>>

vars == <<config, semaphores, processes, buffer, currentStep, isPlaying,
          animationSpeed, history, startTime, statistics,
          heap, liveRefs, historyRefs, recorded, inputRefs, inputValues,
          bufferUtilization, interval, issuer>>

\* The live SimulationState as one record.
state ==
  [animationSpeed |-> animationSpeed,
   config |-> config, semaphores |-> semaphores, processes |-> processes,
   buffer |-> buffer, currentStep |-> currentStep, isPlaying |-> isPlaying,
   history |-> history, startTime |-> startTime, statistics |-> statistics]

\* Payloads of the commands that carry one.
ConfigPayloads ==
  [bufferSize : 1..MaxBuf, producerCount : 1..MaxProd,
   consumerCount : 1..MaxCons, animationSpeed : {30}]
  \cup {[DEFAULT_CONFIG EXCEPT !.bufferSize = 0],
        [DEFAULT_CONFIG EXCEPT !.animationSpeed = 31]}

SpeedPayloads == {4, 30, 31}

\* Values Date.now() may return (the wall clock is not monotonic).
Times == {1, 2}

\* The state becomes r.
Assign(r) ==
  /\ config' = r.config
  /\ semaphores' = r.semaphores
  /\ processes' = r.processes
  /\ buffer' = r.buffer
  /\ currentStep' = r.currentStep
  /\ isPlaying' = r.isPlaying
  /\ animationSpeed' = r.animationSpeed
  /\ history' = r.history
  /\ startTime' = r.startTime
  /\ statistics' = r.statistics

Set(r) == Assign(r) /\ UNCHANGED <<heapVars, floatVars, timerVars>>

\* The four kinds of object of a state, one address for each: the records
\* of an array are copied and shared together.
objectRefs(base) ==
  [semaphores |-> base + 1, processes |-> base + 2, buffer |-> base + 3,
   statistics |-> base + 4]

\* What the objects at refs hold in heap h.
deref(h, refs) ==
  [semaphores |-> h[refs.semaphores], processes |-> h[refs.processes],
   buffer |-> h[refs.buffer], statistics |-> h[refs.statistics]]

\* createInitialState: four fresh objects at version 0.
HeapInit ==
  /\ heap = <<0, 0, 0, 0>>
  /\ liveRefs = objectRefs(0)
  /\ historyRefs = <<>>
  /\ recorded = <<>>
  /\ inputRefs = objectRefs(0)
  /\ inputValues = deref(<<0, 0, 0, 0>>, objectRefs(0))

\* bufferUtilization: 0 of the initial statistics.
FloatInit == bufferUtilization = Zero

\* After the first render isPlaying is false and the effect sets no interval.
TimerInit == interval = <<>> /\ issuer = "caller"

\* useReducer(simulationReducer, DEFAULT_CONFIG, createInitialState)
Init ==
  LET r == createInitialState(DEFAULT_CONFIG)
  IN /\ config = r.config
     /\ semaphores = r.semaphores
     /\ processes = r.processes
     /\ buffer = r.buffer
     /\ currentStep = r.currentStep
     /\ isPlaying = r.isPlaying
     /\ animationSpeed = r.animationSpeed
     /\ history = r.history
     /\ startTime = r.startTime
     /\ statistics = r.statistics
     /\ HeapInit
     /\ FloatInit
     /\ TimerInit

SetConfig ==
  \E c \in ConfigPayloads : \E r \in {SET_CONFIG(state, c)} : Set(r)

StartSimulation ==
  \E t \in Times : \E r \in {START_SIMULATION(state, t)} : Set(r)

PauseSimulation == \E r \in {PAUSE_SIMULATION(state)} : Set(r)

StepForward ==
  /\ currentStep < MaxSteps
  /\ \E t \in Times : \E r \in {STEP_FORWARD(state, t)} : Set(r)

StepBackward == \E r \in {STEP_BACKWARD(state)} : Set(r)

JumpToStep ==
  \E target \in -1..(Len(history) + 1) :
    \E r \in {JUMP_TO_STEP(state, target)} : Set(r)

SetSpeed == \E s \in SpeedPayloads : \E r \in {SET_SPEED(state, s)} : Set(r)

ResetSimulation == \E r \in {RESET_SIMULATION(state)} : Set(r)

Next ==
  \/ SetConfig
  \/ StartSimulation
  \/ PauseSimulation
  \/ StepForward
  \/ StepBackward
  \/ JumpToStep
  \/ SetSpeed
  \/ ResetSimulation

Spec == Init /\ [][Next]_vars

----------------------------------------------------------------------------
\* The reducer on the objects: which calls assign fields of the objects they
\* are given and which work on copies

\* An assignment to a field of an object changes its version.
bump(v) == (v + 1) % 3

\* The value a caller writes into a record of the state it was returned
\* (999 in the tests).
MutatedValue == 9

\* [...array] copies the array and shares its records, so the assignments
\* of waitSemaphore, signalSemaphore and of the slot reach the objects of
\* the state given: those of the kinds named are changed in place.
assignInPlace(h, refs, kinds) ==
  [a \in 1..Len(h) |->
     IF \E kind \in kinds : refs[kind] = a THEN bump(h[a]) ELSE h[a]]

\* A copy that shares the objects it should duplicate.
copyObjects_shared(h, refs) == [heap |-> h, refs |-> refs]

\* JSON.parse(JSON.stringify(x)) of the three arrays and { ...statistics }:
\* four fresh objects holding what the objects at refs hold.
copyObjects(h, refs) ==
  [heap |-> h \o <<h[refs.semaphores], h[refs.processes], h[refs.buffer],
                   h[refs.statistics]>>,
   refs |-> objectRefs(Len(h))]

\* The ghost record of a reducer call: the objects of the state given and
\* what they held before the call.
CallOn(h, refs) ==
  /\ inputRefs' = refs
  /\ inputValues' = deref(h, refs)

\* STEP_FORWARD that acts.  The micro-step assigns the semaphore and process
\* records in place, and the slot too when it moves an item (kinds); the
\* statistics go to a fresh object; the snapshot is a copy of the result.
HeapStepForward ==
  \E kinds \in {{"semaphores", "processes"},
                {"semaphores", "processes", "buffer"}} :
    /\ Len(heap) + 5 <= MaxObjects
    /\ LET assigned == assignInPlace(heap, liveRefs, kinds)
           updatedStatistics ==
             IF "buffer" \in kinds
             THEN bump(assigned[liveRefs.statistics])
             ELSE assigned[liveRefs.statistics]
           withStatistics == Append(assigned, updatedStatistics)
           newRefs == [liveRefs EXCEPT !.statistics = Len(withStatistics)]
       IN \E snapshot \in {copyObjects(withStatistics, newRefs)} :
            /\ heap' = snapshot.heap
            /\ liveRefs' = newRefs
            /\ historyRefs' = Append(historyRefs, snapshot.refs)
            /\ recorded' = Append(recorded, deref(snapshot.heap, snapshot.refs))
    /\ CallOn(heap, liveRefs)
    /\ UNCHANGED <<simulationVars, floatVars, timerVars>>

\* STEP_BACKWARD and JUMP_TO_STEP restoring the snapshot of step target: the
\* state gets copies of the snapshot's objects, the history is sliced.
HeapRestore ==
  \E target \in 1..Len(historyRefs) :
    /\ Len(heap) + 4 <= MaxObjects
    /\ \E restored \in {copyObjects(heap, historyRefs[target])} :
         /\ heap' = restored.heap
         /\ liveRefs' = restored.refs
    /\ historyRefs' = SubSeq(historyRefs, 1, target)
    /\ recorded' = SubSeq(recorded, 1, target)
    /\ CallOn(heap, liveRefs)
    /\ UNCHANGED <<simulationVars, floatVars, timerVars>>

\* createInitialState, for SET_CONFIG, RESET_SIMULATION and the way back to
\* step 0: fresh objects and an empty history.
HeapInitialState ==
  /\ Len(heap) + 4 <= MaxObjects
  /\ heap' = heap \o <<0, 0, 0, 0>>
  /\ liveRefs' = objectRefs(Len(heap))
  /\ historyRefs' = <<>>
  /\ recorded' = <<>>
  /\ CallOn(heap, liveRefs)
  /\ UNCHANGED <<simulationVars, floatVars, timerVars>>

\* The caller assigns a field of a record of the state it was returned.
HeapMutateReturned ==
  \E kind \in DOMAIN liveRefs :
    /\ heap[liveRefs[kind]] # MutatedValue
    /\ heap' = [heap EXCEPT ![liveRefs[kind]] = MutatedValue]
    /\ CallOn(heap', liveRefs)
    /\ UNCHANGED <<liveRefs, historyRefs, recorded>>
    /\ UNCHANGED <<simulationVars, floatVars, timerVars>>

HeapNext ==
  \/ HeapStepForward
  \/ HeapRestore
  \/ HeapInitialState
  \/ HeapMutateReturned

HeapSpec == Init /\ [][HeapNext]_vars

----------------------------------------------------------------------------
\* The utilization as a double.  The buffer of any valid size is filled and
\* emptied as produce and consume do it, lowest slot first, and the
\* utilization is computed from the new buffer each time.

FloatStart ==
  \E n \in MinBufferSize..MaxBufferSize :
    \E r \in {createInitialState([DEFAULT_CONFIG EXCEPT !.bufferSize = n])} :
      /\ config = r.config
      /\ semaphores = r.semaphores
      /\ processes = r.processes
      /\ buffer = r.buffer
      /\ currentStep = r.currentStep
      /\ isPlaying = r.isPlaying
      /\ animationSpeed = r.animationSpeed
      /\ history = r.history
      /\ startTime = r.startTime
      /\ statistics = r.statistics
      /\ HeapInit
      /\ FloatInit
      /\ TimerInit

FloatProduce ==
  /\ FirstIndex(buffer, isFree) # 0
  /\ \E newBuffer \in
         {[buffer EXCEPT ![FirstIndex(buffer, isFree)].occupied = TRUE]} :
       /\ buffer' = newBuffer
       /\ bufferUtilization' = bufferUtilizationDouble(newBuffer)
  /\ UNCHANGED <<config, semaphores, processes, currentStep, isPlaying,
                 animationSpeed, history, startTime, statistics, heapVars,
                 timerVars>>

FloatConsume ==
  /\ FirstIndex(buffer, isOccupied) # 0
  /\ \E newBuffer \in
         {[buffer EXCEPT ![FirstIndex(buffer, isOccupied)].occupied = FALSE]} :
       /\ buffer' = newBuffer
       /\ bufferUtilization' = bufferUtilizationDouble(newBuffer)
  /\ UNCHANGED <<config, semaphores, processes, currentStep, isPlaying,
                 animationSpeed, history, startTime, statistics, heapVars,
                 timerVars>>

FloatNext ==
  \/ FloatProduce
  \/ FloatConsume

FloatSpec == FloatStart /\ [][FloatNext]_vars

----------------------------------------------------------------------------
\* src/hooks/useSimulation.ts: the hook.  Commands come from the caller and
\* from the interval callback; after the render of each the effect, whose
\* dependencies are isPlaying and animationSpeed, clears the interval it had
\* set and sets a new one while the simulation plays.

\* 1000 / animationSpeed milliseconds, animationSpeed counted in tenths.
delay(speed) == Quotient(10000, speed)

\* An effect that never clears the interval it has set.
autoPlayEffect_noCleanup(iv, st, r) ==
  IF r.isPlaying = st.isPlaying /\ r.animationSpeed = st.animationSpeed
  THEN iv
  ELSE IF r.isPlaying THEN <<delay(r.animationSpeed)>> ELSE iv

\* The interval after the render that takes the state from st to r: the
\* effect runs when a dependency has changed.
autoPlayEffect(iv, st, r) ==
  IF r.isPlaying = st.isPlaying /\ r.animationSpeed = st.animationSpeed
  THEN iv
  ELSE IF r.isPlaying THEN <<delay(r.animationSpeed)>> ELSE <<>>

\* The command of who gives r: render, then effect.
Commit(r, who) ==
  /\ Assign(r)
  /\ interval' = autoPlayEffect(interval, state, r)
  /\ issuer' = who
  /\ UNCHANGED <<heapVars, floatVars>>

\* The callback of setInterval: dispatch({ type: 'STEP_FORWARD' }).
Tick ==
  /\ interval # <<>>
  /\ currentStep < MaxSteps
  /\ \E t \in Times : \E r \in {STEP_FORWARD(state, t)} : Commit(r, "timer")

HookSetConfig ==
  \E c \in ConfigPayloads :
    \E r \in {SET_CONFIG(state, c)} : Commit(r, "caller")

HookStartSimulation ==
  \E t \in Times : \E r \in {START_SIMULATION(state, t)} : Commit(r, "caller")

HookPauseSimulation ==
  \E r \in {PAUSE_SIMULATION(state)} : Commit(r, "caller")

HookStepForward ==
  /\ currentStep < MaxSteps
  /\ \E t \in Times : \E r \in {STEP_FORWARD(state, t)} : Commit(r, "caller")

HookStepBackward == \E r \in {STEP_BACKWARD(state)} : Commit(r, "caller")

HookJumpToStep ==
  \E target \in -1..(Len(history) + 1) :
    \E r \in {JUMP_TO_STEP(state, target)} : Commit(r, "caller")

HookSetSpeed ==
  \E s \in SpeedPayloads : \E r \in {SET_SPEED(state, s)} : Commit(r, "caller")

HookResetSimulation ==
  \E r \in {RESET_SIMULATION(state)} : Commit(r, "caller")

HookNext ==
  \/ Tick
  \/ HookSetConfig
  \/ HookStartSimulation
  \/ HookPauseSimulation
  \/ HookStepForward
  \/ HookStepBackward
  \/ HookJumpToStep
  \/ HookSetSpeed
  \/ HookResetSimulation

HookSpec == Init /\ [][HookNext]_vars

----------------------------------------------------------------------------
\* src/App.tsx: the handlers of the controls.  Each reads the state of the
\* last render and dispatches to the hook.

hasSimulationStarted(st) == st.currentStep > 0 \/ Len(st.history) > 0

canStepForward(st) ==
  /\ ~st.isPlaying
  /\ (st.currentStep < Len(st.history) \/ ~hasSimulationStarted(st))

canStepBackward(st) == ~st.isPlaying /\ st.currentStep > 0

handleConfigChange == ~state.isPlaying /\ HookSetConfig

handleStartSimulation == ~state.isPlaying /\ HookStartSimulation

handleResetSimulation ==
  \E r \in {RESET_SIMULATION(state)} : Commit(r, "caller")

handlePlay ==
  /\ ~state.isPlaying
  /\ \E t \in Times : \E r \in {START_SIMULATION(state, t)} : Commit(r, "caller")

handlePause == state.isPlaying /\ HookPauseSimulation

handleStepForward == canStepForward(state) /\ HookStepForward

handleStepBackward == canStepBackward(state) /\ HookStepBackward

handleSpeedChange ==
  \E s \in SpeedPayloads :
    /\ s >= MinSpeed /\ s <= MaxSpeed
    /\ \E r \in {SET_SPEED(state, s)} : Commit(r, "caller")

AppNext ==
  \/ Tick
  \/ handleConfigChange
  \/ handleStartSimulation
  \/ handleResetSimulation
  \/ handlePlay
  \/ handlePause
  \/ handleStepForward
  \/ handleStepBackward
  \/ handleSpeedChange

AppSpec == Init /\ [][AppNext]_vars

----------------------------------------------------------------------------
\* Vocabulary of the properties

semValue(sems, name) == sems[getSemaphoreByName(sems, name)].value

semQueue(sems, name) == sems[getSemaphoreByName(sems, name)].waitingQueue

\* Number of processes holding a permit between their two micro-steps.
midOperation(procs, op) ==
  Cardinality({i \in 1..Len(procs) : procs[i].currentOperation = op})

\* st (a state or a snapshot) and u agree on semaphores, processes, buffer
\* and statistics.
sameDynamic(st, u) ==
  /\ st.semaphores = u.semaphores
  /\ st.processes = u.processes
  /\ st.buffer = u.buffer
  /\ st.statistics = u.statistics

RECURSIVE stepBackwardTimes(_, _)
stepBackwardTimes(st, k) ==
  IF k = 0 THEN st
  ELSE With(STEP_BACKWARD(st), LAMBDA r : stepBackwardTimes(r, k - 1))

----------------------------------------------------------------------------
\* C1: round trip.  A state reached by StepForward commands is taken back to
\* the initial state of its configuration by as many StepBackward commands
\* as it has steps (and by any further ones): semaphores, processes, buffer
\* and statistics are the initial ones and currentStep is 0.
RoundTrip ==
  \A k \in {currentStep, currentStep + 1} :
    With(stepBackwardTimes(state, k),
      LAMBDA back :
        /\ sameDynamic(back, createInitialState(config))
        /\ back.currentStep = 0)

RoundTripWitness ==
  /\ currentStep >= 8
  /\ statistics.totalItemsConsumed >= 1
  /\ RoundTrip

----------------------------------------------------------------------------
\* C2: StepBackward at step n >= 1 gives step n - 1, the first n - 1
\* snapshots of the history unchanged, and the semaphores, processes, buffer
\* and statistics recorded right after step n - 1 (the initial ones when
\* n = 1).  The last snapshot is the live state, so what a snapshot records
\* is what held right after its step.
StepBackwardRestores ==
  currentStep >= 1 =>
    /\ currentStep <= Len(history)
    /\ sameDynamic(state, history[currentStep])
    /\ With(STEP_BACKWARD(state),
         LAMBDA r :
           /\ r.currentStep = currentStep - 1
           /\ r.history = SubSeq(history, 1, currentStep - 1)
           /\ IF currentStep = 1
              THEN sameDynamic(r, createInitialState(config))
              ELSE sameDynamic(r, history[currentStep - 1]))

StepBackwardWitness ==
  /\ currentStep >= 3
  /\ With(STEP_BACKWARD(state),
       LAMBDA r : r.buffer # buffer /\ r.semaphores # semaphores)

----------------------------------------------------------------------------
\* Replaying step k + 1: restore step k, then STEP_FORWARD at time t.
replayByJump(k, t) ==
  With(JUMP_TO_STEP(state, k), LAMBDA r : STEP_FORWARD(r, t))

replayByStepBackward(t) ==
  With(STEP_BACKWARD(state), LAMBDA r : STEP_FORWARD(r, t))

sameStep(a, b) ==
  /\ a.stepNumber = b.stepNumber
  /\ a.action = b.action
  /\ a.processId = b.processId
  /\ sameDynamic(a, b)

\* As sameStep, but an item that b has and that was not there before the
\* step may differ from the one of a in its timestamp.
sameStepButNewTimestamp(a, b, before) ==
  /\ a.stepNumber = b.stepNumber
  /\ a.action = b.action
  /\ a.processId = b.processId
  /\ a.semaphores = b.semaphores
  /\ a.processes = b.processes
  /\ a.statistics = b.statistics
  /\ Len(a.buffer) = Len(b.buffer)
  /\ \A i \in 1..Len(a.buffer) :
       IF b.buffer[i].occupied /\ ~before[i].occupied
       THEN /\ a.buffer[i].occupied
            /\ a.buffer[i].id = b.buffer[i].id
            /\ a.buffer[i].item.id = b.buffer[i].item.id
            /\ a.buffer[i].item.producedBy = b.buffer[i].item.producedBy
       ELSE a.buffer[i] = b.buffer[i]

bufferAtStep(k) ==
  IF k = 0 THEN createInitialState(config).buffer ELSE history[k].buffer

\* C3 as stated: restoring step k < n and stepping forward appends a snapshot
\* equal to the original snapshot of step k + 1 (action, process, semaphores,
\* processes, buffer, statistics).
ReplayIdentical ==
  \A t \in Times :
    /\ \A k \in 0..(Len(history) - 1) :
         With(replayByJump(k, t),
           LAMBDA r : /\ Len(r.history) = k + 1
                      /\ sameStep(r.history[k + 1], history[k + 1]))
    /\ Len(history) >= 1 =>
         With(replayByStepBackward(t),
           LAMBDA r : /\ Len(r.history) = Len(history)
                      /\ sameStep(r.history[Len(history)],
                                  history[Len(history)]))

\* C3 amended: the replayed snapshot equals the original one except for the
\* timestamp of the item the replayed step produces, which is the time of
\* the replay.
ReplayButTimestamp ==
  \A t \in Times :
    /\ \A k \in 0..(Len(history) - 1) :
         With(replayByJump(k, t),
           LAMBDA r : /\ Len(r.history) = k + 1
                      /\ sameStepButNewTimestamp(r.history[k + 1],
                                                 history[k + 1],
                                                 bufferAtStep(k)))
    /\ Len(history) >= 1 =>
         With(replayByStepBackward(t),
           LAMBDA r : /\ Len(r.history) = Len(history)
                      /\ sameStepButNewTimestamp(
                           r.history[Len(history)], history[Len(history)],
                           bufferAtStep(Len(history) - 1)))

ReplayWitness ==
  /\ Len(history) >= 6
  /\ statistics.totalItemsConsumed >= 1
  /\ \E k \in 1..(Len(history) - 1) : \E t \in Times :
       /\ history[k + 1].buffer # history[k].buffer
       /\ replayByJump(k, t).history[k + 1] # history[k + 1]

----------------------------------------------------------------------------
\* C4 as stated: in every reachable state some process is ready or running.
DeadlockFree == \E i \in 1..Len(processes) : isReadyOrRunning(processes[i])

----------------------------------------------------------------------------
----------------------------------------------------------------------------
\* C6 as stated: the number of occupied slots equals full.value.
OccupiedEqualsFull == occupiedCount(buffer) = semValue(semaphores, "full")

\* C6 amended: the number of occupied slots equals full.value plus the number
\* of consumers that hold a permit of full between their two micro-steps.
OccupiedEqualsFullPlusConsuming ==
  occupiedCount(buffer)
    = semValue(semaphores, "full") + midOperation(processes, "consuming")

OccupiedWitness ==
  /\ OccupiedEqualsFullPlusConsuming
  /\ midOperation(processes, "consuming") = 1
  /\ occupiedCount(buffer) = 2
  /\ semValue(semaphores, "full") = 1

----------------------------------------------------------------------------
\* Process i was blocked on an item semaphore after the previous step and is
\* ready now: the last step's signal has woken it.
wokenFrom(i, name) ==
  /\ currentStep >= 2
  /\ currentStep = Len(history)
  /\ history[currentStep - 1].processes[i].state = "blocked"
  /\ history[currentStep - 1].processes[i].waitingOn = name
  /\ processes[i].state = "ready"

\* C7 as stated: a process woken by a signal proceeds with the permit handed
\* to it when it is scheduled next: a producer woken from empty becomes
\* producing, a consumer woken from full becomes consuming, and neither
\* blocks on that semaphore again.
HandOffKeepsPermit ==
  \A i \in 1..Len(processes) : \A t \in Times :
    /\ (wokenFrom(i, "empty") /\ i = FirstIndex(processes, isReadyOrRunning))
         => With(STEP_FORWARD(state, t),
              LAMBDA r : /\ r.processes[i].state # "blocked"
                         /\ r.processes[i].currentOperation = "producing")
    /\ (wokenFrom(i, "full") /\ i = FirstIndex(processes, isReadyOrRunning))
         => With(STEP_FORWARD(state, t),
              LAMBDA r : /\ r.processes[i].state # "blocked"
                         /\ r.processes[i].currentOperation = "consuming")

----------------------------------------------------------------------------
\* The messages of a micro-step that blocks.
waitingActions(processId) ==
  {processId \o " waiting for empty slot",
   processId \o " waiting for full slot",
   processId \o " waiting for mutex"}

\* C8 as stated: a StepForward in which the scheduled process blocks appends
\* no snapshot and leaves currentStep unchanged.
NoSnapshotOnBlock ==
  \A t \in Times :
    LET first == FirstIndex(processes, isReadyOrRunning)
    IN first # 0 =>
         With(STEP_FORWARD(state, t),
           LAMBDA r :
             r.processes[first].state = "blocked" =>
               /\ r.history = history
               /\ r.currentStep = currentStep)

\* C8 amended: a StepForward in which the scheduled process blocks appends
\* one snapshot, whose action is the waiting message of that process, and
\* adds one to currentStep.
BlockedStepRecorded ==
  \A t \in Times :
    LET first == FirstIndex(processes, isReadyOrRunning)
    IN first # 0 =>
         With(STEP_FORWARD(state, t),
           LAMBDA r :
             r.processes[first].state = "blocked" =>
               /\ r.currentStep = currentStep + 1
               /\ Len(r.history) = Len(history) + 1
               /\ SubSeq(r.history, 1, Len(history)) = history
               /\ r.history[Len(r.history)].processId = processes[first].id
               /\ r.history[Len(r.history)].action
                    \in waitingActions(processes[first].id)
               /\ r.history[Len(r.history)].processes[first].state
                    = "blocked")

BlockedStepWitness ==
  /\ currentStep = Len(history)
  /\ currentStep >= 3
  /\ history[currentStep].action = "P1 waiting for empty slot"
  /\ history[currentStep - 1].action = "P1 produced an item"
  /\ processes[1].state = "blocked"

----------------------------------------------------------------------------
expectedItemId(n, processId) == "item-" \o ToString(n) \o "-" \o processId

\* The slots filled by step j.
filledBy(j) ==
  {i \in 1..Len(history[j].buffer) :
     history[j].buffer[i].occupied /\ ~bufferAtStep(j - 1)[i].occupied}

producedIn(j) == history[j].action = history[j].processId \o " produced an item"

\* C9 as stated: the item produced by the step that creates snapshot n is
\* called item-<n>-<P>.
ItemIdIsSnapshotStep ==
  \A j \in 1..Len(history) : \A i \in filledBy(j) :
    /\ history[j].buffer[i].item.producedBy = history[j].processId
    /\ history[j].buffer[i].item.id
         = expectedItemId(history[j].stepNumber, history[j].processId)

\* C9 amended: the item produced by the step that creates snapshot n is
\* called item-<n - 1>-<P>: the number is currentStep as it is before the
\* step.  A snapshot fills a slot exactly when its step produced.
ItemIdIsPreviousStep ==
  \A j \in 1..Len(history) :
    /\ Cardinality(filledBy(j)) = (IF producedIn(j) THEN 1 ELSE 0)
    /\ \A i \in filledBy(j) :
         /\ history[j].buffer[i].item.producedBy = history[j].processId
         /\ history[j].buffer[i].item.id
              = expectedItemId(history[j].stepNumber - 1,
                               history[j].processId)

ItemIdWitness ==
  /\ Len(history) >= 4
  /\ producedIn(4)
  /\ history[4].buffer[2].item.id = "item-3-P1"
  /\ buffer[2].occupied
  /\ buffer[2].item.id = "item-3-P1"

----------------------------------------------------------------------------
\* C10: every id in the wait queue of a semaphore is the id of a process
\* that is blocked and waiting on that semaphore.
QueuedAreBlocked ==
  \A s \in 1..Len(semaphores) :
    \A j \in 1..Len(semaphores[s].waitingQueue) :
      \E i \in 1..Len(processes) :
        /\ processes[i].id = semaphores[s].waitingQueue[j]
        /\ processes[i].state = "blocked"
        /\ processes[i].waitingOn = semaphores[s].name

QueuedWitness ==
  /\ semQueue(semaphores, "empty") = <<"P2", "P1">>
  /\ semQueue(semaphores, "full") = <<"C1">>
  /\ QueuedAreBlocked

----------------------------------------------------------------------------
\* C11: in every state reached by the eight commands currentStep is the
\* length of history.
StepIsHistoryLength == currentStep = Len(history)

\* Several steps are recorded and a StepBackward truncates the history.
StepIsHistoryLengthWitness ==
  /\ currentStep >= 3
  /\ With(STEP_BACKWARD(state),
       LAMBDA r : Len(r.history) = currentStep - 1 /\ r.history # history)

----------------------------------------------------------------------------
\* C12: the value of mutex is 0 or 1 in every reachable state, and in every
\* snapshot the history keeps.
MutexBinary ==
  /\ semValue(semaphores, "mutex") \in 0..1
  /\ \A i \in 1..Len(history) :
       semValue(history[i].semaphores, "mutex") \in 0..1

\* The mutex has been taken and released by a producer and by a consumer.
MutexBinaryWitness ==
  /\ statistics.totalItemsProduced >= 2
  /\ statistics.totalItemsConsumed >= 1
  /\ semValue(semaphores, "mutex") = 1

----------------------------------------------------------------------------
\* C13: for every t from 1 to the length of history, JumpToStep(t) gives
\* currentStep = t, the first t snapshots as history, and the semaphores,
\* processes, buffer and statistics recorded by snapshot t; the live state
\* always equals its last snapshot, so snapshot t records what held right
\* after step t.
JumpRestores ==
  /\ currentStep >= 1 =>
       /\ currentStep <= Len(history)
       /\ sameDynamic(state, history[currentStep])
  /\ \A target \in 1..Len(history) :
       With(JUMP_TO_STEP(state, target),
         LAMBDA r :
           /\ r.currentStep = target
           /\ r.history = SubSeq(history, 1, target)
           /\ sameDynamic(r, history[target]))

\* A jump from step 4 or later back to step 2 that changes the buffer and
\* the semaphores.
JumpRestoresWitness ==
  /\ currentStep >= 4
  /\ With(JUMP_TO_STEP(state, 2),
       LAMBDA r : r.buffer # buffer /\ r.semaphores # semaphores
                  /\ Len(r.history) = 2)

----------------------------------------------------------------------------
\* The fields of st that the initial state of configuration c fixes:
\* semaphores at (bufferSize, 0, 1) with empty queues, producers P1.. then
\* consumers C1.. all ready with no operation and zero counters, bufferSize
\* free slots, no history, step 0 and statistics at zero.
isInitialFor(st, c) ==
  /\ Len(st.semaphores) = 3
  /\ semValue(st.semaphores, "empty") = c.bufferSize
  /\ semValue(st.semaphores, "full") = 0
  /\ semValue(st.semaphores, "mutex") = 1
  /\ \A i \in 1..3 : st.semaphores[i].waitingQueue = <<>>
  /\ Len(st.processes) = c.producerCount + c.consumerCount
  /\ \A i \in 1..Len(st.processes) :
       /\ st.processes[i].id =
            IF i <= c.producerCount
            THEN "P" \o ToString(i)
            ELSE "C" \o ToString(i - c.producerCount)
       /\ st.processes[i].type =
            IF i <= c.producerCount THEN "producer" ELSE "consumer"
       /\ st.processes[i].state = "ready"
       /\ st.processes[i].currentOperation = Undefined
       /\ st.processes[i].waitingOn = Undefined
       /\ st.processes[i].itemsProcessed = 0
       /\ st.processes[i].totalWaitTime = 0
  /\ Len(st.buffer) = c.bufferSize
  /\ \A i \in 1..Len(st.buffer) :
       /\ st.buffer[i].id = i - 1
       /\ ~st.buffer[i].occupied
       /\ st.buffer[i].item = NoItem
  /\ st.history = <<>>
  /\ st.currentStep = 0
  /\ st.statistics.totalItemsProduced = 0
  /\ st.statistics.totalItemsConsumed = 0
  /\ st.statistics.bufferUtilization = Quotient(0, 1)
  /\ st.statistics.averageWaitTime = Quotient(0, 1)

\* C14: from every reachable state JumpToStep(0) gives the initial state of
\* the current configuration, with the configuration unchanged and
\* animationSpeed at its value before the jump.
JumpToZeroIsInitial ==
  With(JUMP_TO_STEP(state, 0),
    LAMBDA r :
      /\ isInitialFor(r, config)
      /\ r.config = config
      /\ r.animationSpeed = animationSpeed)

\* Steps have been taken, an item is in the buffer, and the speed has been
\* set to a value that is not the configuration's.
JumpToZeroWitness ==
  /\ currentStep >= 3
  /\ animationSpeed # config.animationSpeed
  /\ occupiedCount(buffer) >= 1
  /\ statistics.totalItemsProduced >= 1

----------------------------------------------------------------------------
\* C15 as stated: JumpToStep(currentStep) returns a state equal to its input
\* in every field, at step 0 and after StartSimulation too.
JumpIdempotent == JUMP_TO_STEP(state, currentStep) = state

\* C15: JumpToStep(currentStep) returns its input in every field when
\* currentStep >= 1; at step 0 it returns its input with startTime reset to
\* null, every other field equal.
JumpIdempotentButStartTime ==
  With(JUMP_TO_STEP(state, currentStep),
    LAMBDA r :
      IF currentStep = 0
      THEN r = [state EXCEPT !.startTime = Null]
      ELSE r = state)

\* At step 0 after StartSimulation, the speed set apart from the
\* configuration's: the jump to the current step loses startTime.
JumpIdempotentWitness ==
  /\ currentStep = 0
  /\ startTime # Null
  /\ isPlaying
  /\ animationSpeed # config.animationSpeed
  /\ JUMP_TO_STEP(state, currentStep).startTime = Null

----------------------------------------------------------------------------
\* Jump targets outside 0..n for a history of length n.
outOfRange(n) == {-2, -1, n + 1, n + 2}

\* C16: JumpToStep(t) with t < 0 or t > Len(history) returns its input
\* unchanged; after a StepBackward or a backward jump has truncated the
\* history, a jump to a discarded step number returns the truncated state
\* unchanged.
JumpOutOfRangeRejected ==
  /\ \A target \in outOfRange(Len(history)) :
       JUMP_TO_STEP(state, target) = state
  /\ With(STEP_BACKWARD(state),
       LAMBDA r :
         \A target \in (Len(r.history) + 1)..Len(history) :
           JUMP_TO_STEP(r, target) = r)
  /\ \A k \in {0, Len(history) - 2} \cap 0..Len(history) :
       With(JUMP_TO_STEP(state, k),
         LAMBDA r :
           \A target \in (Len(r.history) + 1)..Len(history) :
             JUMP_TO_STEP(r, target) = r)

\* Steps have been taken and started: a StepBackward discards a step whose
\* number is then out of range, and step 0 is not the current state.
JumpOutOfRangeWitness ==
  /\ currentStep >= 3
  /\ startTime # Null
  /\ With(STEP_BACKWARD(state),
       LAMBDA r : Len(r.history) < Len(history)
                  /\ JUMP_TO_STEP(r, currentStep).currentStep = currentStep - 1)

----------------------------------------------------------------------------
\* Valid configurations: the default one and the two at the limits of
\* every range.
lowestConfig ==
  [bufferSize |-> MinBufferSize, producerCount |-> MinProcessCount,
   consumerCount |-> MinProcessCount, animationSpeed |-> MinSpeed]

highestConfig ==
  [bufferSize |-> MaxBufferSize, producerCount |-> MaxProcessCount,
   consumerCount |-> MaxProcessCount, animationSpeed |-> MaxSpeed]

validSamples == {DEFAULT_CONFIG, lowestConfig, highestConfig}

\* The configuration c without one of its fields.
without(c, field) == [f \in DOMAIN c \ {field} |-> c[f]]

\* Configurations with exactly one field just below its range, just above
\* it, negative, or missing.
invalidSamples ==
  {[lowestConfig EXCEPT !.bufferSize = @ - 1],
   [lowestConfig EXCEPT !.producerCount = @ - 1],
   [lowestConfig EXCEPT !.consumerCount = @ - 1],
   [lowestConfig EXCEPT !.animationSpeed = @ - 1],
   [highestConfig EXCEPT !.bufferSize = @ + 1],
   [highestConfig EXCEPT !.producerCount = @ + 1],
   [highestConfig EXCEPT !.consumerCount = @ + 1],
   [highestConfig EXCEPT !.animationSpeed = @ + 1],
   [DEFAULT_CONFIG EXCEPT !.bufferSize = -1],
   [DEFAULT_CONFIG EXCEPT !.producerCount = -1],
   [DEFAULT_CONFIG EXCEPT !.consumerCount = -1],
   [DEFAULT_CONFIG EXCEPT !.animationSpeed = -1]}
  \cup {without(DEFAULT_CONFIG, field) : field \in DOMAIN DEFAULT_CONFIG}

\* C17: SetConfig with a configuration that has a field out of range or
\* missing returns its input unchanged, from every reachable state.
InvalidConfigRejected ==
  With(state,
    LAMBDA st :
      \A c \in invalidSamples :
        /\ ~isValidConfig(c)
        /\ SET_CONFIG(st, c) = st)

\* A state that SetConfig would replace had the configuration been valid:
\* steps taken, playing, speed changed.
InvalidConfigWitness ==
  /\ currentStep >= 2
  /\ isPlaying
  /\ animationSpeed # config.animationSpeed
  /\ SET_CONFIG(state, [DEFAULT_CONFIG EXCEPT !.bufferSize = MaxBufferSize + 1])
       = state
  /\ SET_CONFIG(state, DEFAULT_CONFIG) # state

----------------------------------------------------------------------------
\* Speeds in tenths: below the range, at and next to its limits, inside it
\* and above it.
speedSamples == {0, 4, 5, 6, 17, 29, 30, 31, 35}

\* C18: SetSpeed(s) with s < 0.5 or s > 3.0 returns its input unchanged;
\* with 0.5 <= s <= 3.0, limits included, it sets animationSpeed to s and
\* changes no other field.
SetSpeedChecked ==
  With(state,
    LAMBDA st :
      \A s \in speedSamples :
        With(SET_SPEED(st, s),
          LAMBDA r :
            IF s < 5 \/ s > 30
            THEN r = st
            ELSE /\ r.animationSpeed = s
                 /\ r = [st EXCEPT !.animationSpeed = s]))

\* Steps taken while playing: a speed at the lower limit is accepted and one
\* just above the upper limit is rejected.
SetSpeedWitness ==
  /\ currentStep >= 2
  /\ isPlaying
  /\ SET_SPEED(state, 5).animationSpeed = 5
  /\ animationSpeed # 5
  /\ SET_SPEED(state, 31) = state

----------------------------------------------------------------------------
\* C19: from every reachable state, SetConfig(c) with a valid c gives the
\* initial state for c: the semaphores, processes, buffer, history, step and
\* statistics of isInitialFor, not playing, no start time, the
\* configuration c and the speed of c.
SetConfigRebuilds ==
  \A c \in validSamples
            \cup {[bufferSize |-> MaxBuf, producerCount |-> MaxProd,
                   consumerCount |-> MaxCons, animationSpeed |-> 17]} :
    With(SET_CONFIG(state, c),
      LAMBDA r :
        /\ isInitialFor(r, c)
        /\ r.config = c
        /\ r.isPlaying = FALSE
        /\ r.startTime = Null
        /\ r.animationSpeed = c.animationSpeed)

\* Steps taken, playing, a process blocked, and a speed that is neither the
\* configuration's nor the new configuration's.
SetConfigWitness ==
  /\ currentStep >= 3
  /\ isPlaying
  /\ \E i \in 1..Len(processes) : processes[i].state = "blocked"
  /\ animationSpeed # DEFAULT_CONFIG.animationSpeed
  /\ config # DEFAULT_CONFIG
  /\ SET_CONFIG(state, DEFAULT_CONFIG).config = DEFAULT_CONFIG

----------------------------------------------------------------------------
\* C20: from every reachable state ResetSimulation gives the initial state
\* of the current configuration, not playing, with animationSpeed at its
\* value before the reset, also when SetSpeed has made it differ from the
\* configuration's.
ResetRebuilds ==
  With(RESET_SIMULATION(state),
    LAMBDA r :
      /\ isInitialFor(r, config)
      /\ r.config = config
      /\ r.isPlaying = FALSE
      /\ r.animationSpeed = animationSpeed)

\* Steps taken while playing after a SetSpeed to a value that is not the
\* configuration's.
ResetWitness ==
  /\ currentStep >= 3
  /\ isPlaying
  /\ statistics.totalItemsProduced >= 1
  /\ animationSpeed # config.animationSpeed
  /\ RESET_SIMULATION(state).animationSpeed # config.animationSpeed

----------------------------------------------------------------------------
\* st and r have the same animationSpeed, isPlaying and config.
sameSettings(st, r) ==
  /\ r.animationSpeed = st.animationSpeed
  /\ r.isPlaying = st.isPlaying
  /\ r.config = st.config

\* C21: StepBackward, and JumpToStep to any accepted target (0 included),
\* leave animationSpeed, isPlaying and config unchanged.
NavigationKeepsSettings ==
  With(state,
    LAMBDA st :
      /\ sameSettings(st, STEP_BACKWARD(st))
      /\ \A target \in 0..Len(st.history) :
           sameSettings(st, JUMP_TO_STEP(st, target)))

\* Playing at a speed that is not the configuration's, at step 1 and at a
\* later step: StepBackward goes back to the initial state or to a snapshot.
NavigationWitness ==
  /\ isPlaying
  /\ animationSpeed # config.animationSpeed
  /\ currentStep >= 3
  /\ STEP_BACKWARD(state).currentStep = currentStep - 1
  /\ JUMP_TO_STEP(state, 0).currentStep = 0
  /\ JUMP_TO_STEP(state, 0).isPlaying

----------------------------------------------------------------------------
\* A state with its wall-clock values made canonical: item timestamps set
\* to 0, every start time that is not null set to 1, in the live state and
\* in every snapshot.
untimedBuffer(buf) ==
  [i \in 1..Len(buf) |-> [buf[i] EXCEPT !.item.timestamp = 0]]

untimedStart(time) == IF time = Null THEN Null ELSE 1

untimedSnapshot(snap) ==
  [snap EXCEPT !.buffer = untimedBuffer(@), !.startTime = untimedStart(@)]

untimed(st) ==
  [st EXCEPT !.buffer = untimedBuffer(@),
             !.startTime = untimedStart(@),
             !.history = [i \in 1..Len(@) |-> untimedSnapshot(@[i])]]

\* C22 as stated: the same command on the same state gives the same state
\* and history whatever the run, that is whatever the clock returns.
Deterministic ==
  \A t1, t2 \in Times :
    /\ STEP_FORWARD(state, t1) = STEP_FORWARD(state, t2)
    /\ START_SIMULATION(state, t1) = START_SIMULATION(state, t2)

\* C22 amended: two runs of the same commands agree in every field except
\* the wall-clock values (item timestamps and start times, which are null
\* in the same places).  Every command, applied to a reachable state at one
\* time and to its canonical form at another, gives states with the same
\* canonical form, so the canonical forms of two runs stay equal command
\* after command.
DeterministicButClock ==
  With(state,
    LAMBDA st :
      With(untimed(st),
        LAMBDA u :
          /\ \A t1, t2 \in Times :
               /\ untimed(STEP_FORWARD(st, t1)) = untimed(STEP_FORWARD(u, t2))
               /\ untimed(START_SIMULATION(st, t1))
                    = untimed(START_SIMULATION(u, t2))
          /\ untimed(PAUSE_SIMULATION(st)) = untimed(PAUSE_SIMULATION(u))
          /\ untimed(STEP_BACKWARD(st)) = untimed(STEP_BACKWARD(u))
          /\ \A target \in {0, Len(st.history) - 1, Len(st.history) + 1} :
               untimed(JUMP_TO_STEP(st, target))
                 = untimed(JUMP_TO_STEP(u, target))
          /\ untimed(SET_SPEED(st, MaxSpeed)) = untimed(SET_SPEED(u, MaxSpeed))
          /\ untimed(RESET_SIMULATION(st)) = untimed(RESET_SIMULATION(u))
          /\ untimed(SET_CONFIG(st, DEFAULT_CONFIG))
               = untimed(SET_CONFIG(u, DEFAULT_CONFIG))))

\* A started run with items in its history whose next step stores an item:
\* the two clock values give different buffers.
DeterministicWitness ==
  /\ currentStep >= 3
  /\ startTime # Null
  /\ statistics.totalItemsProduced >= 1
  /\ STEP_FORWARD(state, 1).buffer # STEP_FORWARD(state, 2).buffer
  /\ untimed(state) # state

----------------------------------------------------------------------------
\* The addresses of the objects of a state or of a snapshot.
refsOf(refs) == {refs[kind] : kind \in DOMAIN refs}

\* C23: a snapshot holds what it held when it was appended, whatever later
\* commands and direct assignments to the records of the returned state do,
\* and the live state (restored ones included) shares no object with the
\* history.
SnapshotIsolation ==
  /\ \A i \in 1..Len(historyRefs) : deref(heap, historyRefs[i]) = recorded[i]
  /\ \A i \in 1..Len(historyRefs) :
       refsOf(liveRefs) \cap refsOf(historyRefs[i]) = {}

\* Two snapshots are kept and the caller has assigned the semaphore and the
\* statistics objects of the live state, which no longer hold what the last
\* snapshot recorded.
SnapshotIsolationWitness ==
  /\ Len(historyRefs) >= 2
  /\ heap[liveRefs.semaphores] = MutatedValue
  /\ heap[liveRefs.statistics] = MutatedValue
  /\ recorded[Len(recorded)].semaphores # MutatedValue

----------------------------------------------------------------------------
\* No process of procs is ready or running.
noneReady(procs) == \A i \in 1..Len(procs) : ~isReadyOrRunning(procs[i])

\* C24: when no process is ready or running StepForward returns the state
\* unchanged, history and currentStep included.
QuiescentStepIsNoOp ==
  noneReady(processes) =>
    With(state, LAMBDA st : \A t \in Times : STEP_FORWARD(st, t) = st)

\* Every process is blocked after items were produced and consumed.
QuiescentWitness ==
  /\ noneReady(processes)
  /\ Len(processes) >= 2
  /\ statistics.totalItemsConsumed >= 1
  /\ currentStep >= 7

----------------------------------------------------------------------------
\* C25: in every reachable state empty.value + full.value + the number of
\* processes that are producing or consuming equals bufferSize: no permit
\* is lost or created.
PermitsConserved ==
  semValue(semaphores, "empty") + semValue(semaphores, "full")
    + midOperation(processes, "producing")
    + midOperation(processes, "consuming")
  = config.bufferSize

----------------------------------------------------------------------------
\* C26: the reducer is pure.  After a command the semaphore, process,
\* buffer and statistics objects of the state it was given hold what they
\* held before the call.
InputUnmodified == deref(heap, inputRefs) = inputValues

----------------------------------------------------------------------------
\* The processes are declared producers first, then consumers, each kind
\* numbered from 1.
declarationOrder(procs, c) ==
  /\ Len(procs) = c.producerCount + c.consumerCount
  /\ \A i \in 1..Len(procs) :
       procs[i].id = IF i <= c.producerCount
                     THEN "P" \o ToString(i)
                     ELSE "C" \o ToString(i - c.producerCount)

\* Process i of st is the one that acts in the step from st to r: it is the
\* one the new snapshot names, and every other process is left as it was or
\* is woken from a wait queue.
actsIn(st, r, i) ==
  /\ r.history[Len(r.history)].processId = st.processes[i].id
  /\ \A j \in 1..Len(st.processes) :
       j # i =>
         \/ r.processes[j] = st.processes[j]
         \/ /\ st.processes[j].state = "blocked"
            /\ r.processes[j].state = "ready"

\* C27: scheduling order.  The processes stand in declaration order, and in
\* every StepForward that acts the acting process is ready or running before
\* the step while no process declared before it is.
FirstReadyActs ==
  /\ declarationOrder(processes, config)
  /\ With(state, LAMBDA st : \A t \in Times :
       With(STEP_FORWARD(st, t), LAMBDA r :
         r.currentStep = st.currentStep + 1 =>
           \E i \in 1..Len(st.processes) :
             /\ actsIn(st, r, i)
             /\ isReadyOrRunning(st.processes[i])
             /\ \A j \in 1..(i - 1) : ~isReadyOrRunning(st.processes[j])))

\* The first producer is blocked, the second process is the first that can
\* run and a later one is ready too; the step acts.
FirstReadyWitness ==
  /\ Len(processes) >= 3
  /\ processes[1].state = "blocked"
  /\ isReadyOrRunning(processes[2])
  /\ \E k \in 3..Len(processes) : isReadyOrRunning(processes[k])
  /\ STEP_FORWARD(state, 1).currentStep = currentStep + 1
  /\ FirstReadyActs

----------------------------------------------------------------------------
\* The occupied slots of buf are as many as the statistics stats count
\* produced but not consumed, and no more than the buffer has.
occupiedMatches(buf, stats, c) ==
  /\ occupiedCount(buf) = stats.totalItemsProduced - stats.totalItemsConsumed
  /\ occupiedCount(buf) >= 0
  /\ occupiedCount(buf) <= c.bufferSize

\* C28: in every reachable state, those restored by StepBackward and
\* JumpToStep included, the number of occupied slots is totalItemsProduced
\* minus totalItemsConsumed and lies between 0 and bufferSize.
OccupiedIsProducedMinusConsumed ==
  /\ occupiedMatches(buffer, statistics, config)
  /\ With(state, LAMBDA st :
       /\ With(STEP_BACKWARD(st), LAMBDA r :
            occupiedMatches(r.buffer, r.statistics, r.config))
       /\ \A n \in 0..Len(st.history) :
            With(JUMP_TO_STEP(st, n), LAMBDA r :
              occupiedMatches(r.buffer, r.statistics, r.config)))

\* Items were produced and consumed, a slot is occupied, and the step before
\* the last one had a different number of occupied slots.
ProducedMinusConsumedWitness ==
  /\ statistics.totalItemsConsumed >= 1
  /\ occupiedCount(buffer) >= 1
  /\ Len(history) >= 2
  /\ occupiedCount(STEP_BACKWARD(state).buffer) # occupiedCount(buffer)
  /\ OccupiedIsProducedMinusConsumed

----------------------------------------------------------------------------
\* The mutex of sems is free and nobody of procs waits for it.
mutexFree(sems, procs) ==
  /\ semValue(sems, "mutex") = 1
  /\ semQueue(sems, "mutex") = <<>>
  /\ \A i \in 1..Len(procs) : procs[i].waitingOn # "mutex"

\* C29: atomic critical section.  In every state between commands, and in
\* every snapshot, mutex.value is 1 and its wait queue is empty; no process
\* is blocked on mutex and no snapshot records "<id> waiting for mutex".
MutexNeverHeld ==
  /\ mutexFree(semaphores, processes)
  /\ \A i \in 1..Len(history) :
       /\ mutexFree(history[i].semaphores, history[i].processes)
       /\ history[i].action # history[i].processId \o " waiting for mutex"

\* Producers and consumers have gone through the critical section, one of
\* them in the last step.
MutexNeverHeldWitness ==
  /\ statistics.totalItemsProduced >= 2
  /\ statistics.totalItemsConsumed >= 2
  /\ Len(history) >= 1
  /\ history[Len(history)].action
       = history[Len(history)].processId \o " consumed an item"
  /\ MutexNeverHeld

----------------------------------------------------------------------------
\* Every semaphore of sems that has a waiter has no permit.
waitersMeanNoPermit(sems) ==
  \A i \in 1..Len(sems) : sems[i].waitingQueue # <<>> => sems[i].value = 0

\* C30: in every reachable state, and in every snapshot, a semaphore whose
\* wait queue is not empty has value 0.
QueuedMeansZero ==
  /\ waitersMeanNoPermit(semaphores)
  /\ \A i \in 1..Len(history) : waitersMeanNoPermit(history[i].semaphores)

\* A signal has woken one of two waiters and the other is still queued.
QueuedMeansZeroWitness ==
  /\ Len(history) >= 2
  /\ Len(semQueue(history[Len(history) - 1].semaphores, "empty")) = 2
  /\ Len(semQueue(semaphores, "empty")) = 1
  /\ semValue(semaphores, "empty") = 0

----------------------------------------------------------------------------
\* Number of times id stands in the wait queue of semaphore s of sems.
timesQueued(sems, s, id) ==
  Cardinality({j \in 1..Len(sems[s].waitingQueue) :
                 sems[s].waitingQueue[j] = id})

\* A blocked process of procs stands once in the queue of the semaphore it
\* waits on and in no other; any other process waits on nothing and stands
\* in no queue.
queuesMatchProcesses(sems, procs) ==
  \A i \in 1..Len(procs) :
    IF procs[i].state = "blocked"
    THEN \A s \in 1..Len(sems) :
           timesQueued(sems, s, procs[i].id)
             = IF sems[s].name = procs[i].waitingOn THEN 1 ELSE 0
    ELSE /\ procs[i].waitingOn = Undefined
         /\ \A s \in 1..Len(sems) : timesQueued(sems, s, procs[i].id) = 0

\* C31: in every reachable state, and in every snapshot, each blocked
\* process is exactly once in the wait queue of the semaphore named by its
\* waitingOn and in no other queue, and each process that is not blocked has
\* waitingOn unset and is in no wait queue.
BlockedAreQueuedOnce ==
  /\ queuesMatchProcesses(semaphores, processes)
  /\ \A k \in 1..Len(history) :
       queuesMatchProcesses(history[k].semaphores, history[k].processes)

\* Two producers and a consumer have blocked, one producer was woken by a
\* signal and is ready while the other is still queued.
BlockedAreQueuedOnceWitness ==
  /\ Len(history) >= 2
  /\ Len(semQueue(history[Len(history) - 1].semaphores, "empty")) = 2
  /\ semQueue(semaphores, "empty") = <<"P2">>
  /\ \E i \in 1..Len(processes) :
       processes[i].id = "P1" /\ processes[i].state = "ready"
  /\ BlockedAreQueuedOnce

----------------------------------------------------------------------------
\* r is sems and procs after one signal on semaphore s that has waiters: the
\* head of the queue, and only it, is woken and set ready, the others keep
\* their order, and the value is the one before the signal.
wakesHead(sems, procs, s, r) ==
  /\ r.semaphores[s].waitingQueue = Tail(sems[s].waitingQueue)
  /\ r.semaphores[s].value = sems[s].value
  /\ \A o \in 1..Len(sems) : o # s => r.semaphores[o] = sems[o]
  /\ \A i \in 1..Len(procs) :
       IF procs[i].id = Head(sems[s].waitingQueue)
       THEN /\ r.processes[i].state = "ready"
            /\ r.processes[i].waitingOn = Undefined
       ELSE r.processes[i] = procs[i]

\* A wait of process i that blocks on semaphore s puts it behind the
\* processes already queued.
queuesLast(sems, procs, s, i) ==
  With(waitSemaphore(sems, procs, procs[i].id, sems[s].name), LAMBDA w :
    ~w.success =>
      w.semaphores[s].waitingQueue
        = Append(sems[s].waitingQueue, procs[i].id))

\* C32: FIFO wake-up.  A process that blocks is queued behind those already
\* waiting, and a signal on a semaphore with waiters wakes exactly one
\* process, the head of the queue, sets it ready and leaves the value of the
\* semaphore as it was.
FifoWakeUp ==
  \A s \in 1..Len(semaphores) :
    /\ semaphores[s].waitingQueue # <<>> =>
         wakesHead(semaphores, processes, s,
                   signalSemaphore(semaphores, processes, semaphores[s].name))
    /\ \A i \in 1..Len(processes) :
         isReadyOrRunning(processes[i]) =>
           queuesLast(semaphores, processes, s, i)

\* Two producers were queued on empty, P1 first; the last step signalled
\* empty and woke P1, leaving P2 at the head.
FifoWakeUpWitness ==
  /\ Len(history) >= 2
  /\ semQueue(history[Len(history) - 1].semaphores, "empty") = <<"P1", "P2">>
  /\ semQueue(semaphores, "empty") = <<"P2">>
  /\ history[Len(history)].action
       = history[Len(history)].processId \o " consumed an item"
  /\ wakesHead(history[Len(history) - 1].semaphores,
               history[Len(history) - 1].processes,
               getSemaphoreByName(semaphores, "empty"),
               signalSemaphore(history[Len(history) - 1].semaphores,
                               history[Len(history) - 1].processes,
                               "empty"))

----------------------------------------------------------------------------
\* At most one process of procs is between its two micro-steps; it is
\* running and no other process is; a blocked process is between none.
oneInProgress(procs) ==
  /\ Cardinality({i \in 1..Len(procs) :
                    procs[i].currentOperation # Undefined}) <= 1
  /\ \A i \in 1..Len(procs) :
       /\ procs[i].currentOperation # Undefined =>
            /\ procs[i].state = "running"
            /\ \A j \in 1..Len(procs) :
                 j # i => procs[j].state # "running"
       /\ procs[i].state = "blocked" =>
            procs[i].currentOperation = Undefined

\* C33: in every reachable state, and in every snapshot, at most one process
\* has currentOperation set (producing or consuming), that process is the
\* only one in state running, and no blocked process has currentOperation
\* set.
OneOperationInProgress ==
  /\ oneInProgress(processes)
  /\ \A k \in 1..Len(history) : oneInProgress(history[k].processes)

\* A consumer is between its two micro-steps while a producer is blocked and
\* another process is ready.
OneOperationWitness ==
  /\ \E i \in 1..Len(processes) :
       /\ processes[i].currentOperation = "consuming"
       /\ processes[i].state = "running"
  /\ \E i \in 1..Len(processes) : processes[i].state = "blocked"
  /\ \E i \in 1..Len(processes) : processes[i].state = "ready"
  /\ statistics.totalItemsProduced >= 1

----------------------------------------------------------------------------
\* StepForward as the only command, issued for ever from the initial state
\* of a valid configuration.

ProgressConfigs ==
  [bufferSize : 1..MaxBuf, producerCount : 1..MaxProd,
   consumerCount : 1..MaxCons, animationSpeed : {30}]

ProgressInit ==
  \E c \in ProgressConfigs :
    \E r \in {createInitialState(c)} :
      /\ config = r.config
      /\ semaphores = r.semaphores
      /\ processes = r.processes
      /\ buffer = r.buffer
      /\ currentStep = r.currentStep
      /\ isPlaying = r.isPlaying
      /\ animationSpeed = r.animationSpeed
      /\ history = r.history
      /\ startTime = r.startTime
      /\ statistics = r.statistics
      /\ HeapInit
      /\ FloatInit
      /\ TimerInit

ProgressNext == StepForward

\* The command is issued again and again: a StepForward that would change
\* the state is not put off for ever.
ProgressSpec ==
  ProgressInit /\ [][ProgressNext]_vars /\ WF_vars(StepForward)

\* C34: progress.  With StepForward issued for ever, whatever numbers of
\* items have been produced and consumed, later steps produce another item
\* and consume another one (as long as the run has steps left within
\* MaxSteps).
Progress ==
  \A n \in 0..MaxSteps :
    /\ (statistics.totalItemsProduced = n)
         ~> (statistics.totalItemsProduced > n \/ currentStep >= MaxSteps)
    /\ (statistics.totalItemsConsumed = n)
         ~> (statistics.totalItemsConsumed > n \/ currentStep >= MaxSteps)

----------------------------------------------------------------------------
\* The action recorded by the last snapshot of r is the id of its process
\* followed by text.
lastActionIs(r, text) ==
  /\ Len(r.history) >= 1
  /\ r.history[Len(r.history)].action
       = r.history[Len(r.history)].processId \o text

\* Slot k is the lowest-index slot of buf that is occupied (wanted = TRUE)
\* or unoccupied (wanted = FALSE).
lowestSlot(buf, k, wanted) ==
  /\ buf[k].occupied = wanted
  /\ \A j \in 1..(k - 1) : buf[j].occupied # wanted

\* The step from st to r changes slot k alone.
onlySlotChanged(st, r, k) ==
  /\ Len(r.buffer) = Len(st.buffer)
  /\ \A j \in 1..Len(st.buffer) : j # k => r.buffer[j] = st.buffer[j]

\* C35: the step that completes a production fills the lowest-index
\* unoccupied slot, the step that completes a consumption clears the
\* lowest-index occupied slot and removes its item, and no other slot is
\* changed by that step.
LowestSlotFirst ==
  With(state, LAMBDA st : \A t \in Times :
    With(STEP_FORWARD(st, t), LAMBDA r :
      r.currentStep = st.currentStep + 1 =>
        /\ lastActionIs(r, " produced an item") =>
             \E k \in 1..Len(st.buffer) :
               /\ lowestSlot(st.buffer, k, FALSE)
               /\ r.buffer[k].occupied
               /\ r.buffer[k].item.producedBy
                    = r.history[Len(r.history)].processId
               /\ r.buffer[k].item.timestamp = t
               /\ onlySlotChanged(st, r, k)
        /\ lastActionIs(r, " consumed an item") =>
             \E k \in 1..Len(st.buffer) :
               /\ lowestSlot(st.buffer, k, TRUE)
               /\ ~r.buffer[k].occupied
               /\ r.buffer[k].item = NoItem
               /\ onlySlotChanged(st, r, k)))

\* Two slots are occupied and the next step consumes: it clears the first
\* and leaves the second.
LowestSlotWitness ==
  /\ Len(buffer) >= 2
  /\ buffer[1].occupied
  /\ buffer[2].occupied
  /\ With(STEP_FORWARD(state, 1), LAMBDA r :
       /\ lastActionIs(r, " consumed an item")
       /\ r.currentStep = currentStep + 1
       /\ ~r.buffer[1].occupied
       /\ r.buffer[2] = buffer[2])

----------------------------------------------------------------------------
----------------------------------------------------------------------------
\* The natural number k * 2^(-e), for e <= 0: k in the units of a mantissa
\* of exponent e.
scaled(k, e) == natBits(k) \o zeros(0 - e)

\* The double u is num / den exactly.
exactly(u, num, den) ==
  strip(mulAdd(u.mantissa, den, 0)) = strip(scaled(num, u.exponent))

\* The double u is within one unit in the last place of num / den.
withinOneUlp(u, num, den) ==
  With(strip(mulAdd(u.mantissa, den, 0)), LAMBDA have :
    With(strip(scaled(num, u.exponent)), LAMBDA want :
      /\ ~lessBits(strip(mulAdd(want, 1, den)), have)
      /\ ~lessBits(strip(mulAdd(have, 1, den)), want)))

\* 0 <= u <= k.
atMost(u, k) ==
  ~lessBits(strip(scaled(k, u.exponent)), strip(u.mantissa))

\* The sizes of buffer for which every quotient occupied / size times 100
\* comes out exact.
exactSizes == {1, 2, 4, 5, 8, 10}

\* C37 as stated: bufferUtilization * bufferSize = occupied * 100.
UtilizationExact ==
  exactly(bufferUtilization, occupiedCount(buffer) * 100, Len(buffer))

\* C37: bufferUtilization is the double (occupied / bufferSize) * 100.  It
\* lies between 0 and 100 and within one unit in the last place of
\* occupied * 100 / bufferSize; bufferUtilization * bufferSize
\* = occupied * 100 holds when the buffer is empty or full and for the
\* buffer sizes 1, 2, 4, 5, 8 and 10.
UtilizationRounded ==
  With(bufferUtilization, LAMBDA u :
    /\ u = bufferUtilizationDouble(buffer)
    /\ u.exponent <= 0
    /\ Len(u.mantissa) \in {0, Precision}
    /\ atMost(u, 100)
    /\ withinOneUlp(u, occupiedCount(buffer) * 100, Len(buffer))
    /\ \/ Len(buffer) \in exactSizes
       \/ occupiedCount(buffer) \in {0, Len(buffer)}
       => exactly(u, occupiedCount(buffer) * 100, Len(buffer)))

\* One slot of three is occupied after a slot was filled and one cleared:
\* the utilization is 33.33333333333333, below the third of 100.
UtilizationWitness ==
  /\ Len(buffer) = 3
  /\ occupiedCount(buffer) = 1
  /\ buffer[2].occupied
  /\ bufferUtilization.mantissa # <<>>
  /\ ~exactly(bufferUtilization, 100, 3)
  /\ lessBits(strip(mulAdd(bufferUtilization.mantissa, 3, 0)),
              strip(scaled(100, bufferUtilization.exponent)))

----------------------------------------------------------------------------
\* C38: auto-play.  An interval is set exactly while isPlaying is true, and
\* its delay is 1000 / animationSpeed milliseconds; each callback of the timer
\* applies one STEP_FORWARD and runs only while isPlaying is true, so that
\* after PAUSE_SIMULATION no command of the timer changes currentStep; and
\* isPlaying becomes true again only by START_SIMULATION.

intervalFollowsPlaying ==
  interval = IF isPlaying THEN <<delay(animationSpeed)>> ELSE <<>>

timerStepsWhilePlaying ==
  issuer' = "timer" =>
    /\ isPlaying
    /\ \E t \in Times : state' = STEP_FORWARD(state, t)

playingOnlyByStart ==
  ~isPlaying /\ isPlaying' =>
    /\ issuer' = "caller"
    /\ \E t \in Times : state' = START_SIMULATION(state, t)

AutoPlay ==
  /\ []intervalFollowsPlaying
  /\ [][timerStepsWhilePlaying /\ playingOnlyByStart]_vars

\* The timer has stepped a simulation that plays at a speed other than the
\* configured one, after a pause and a second start.
AutoPlayWitness ==
  /\ issuer = "timer"
  /\ isPlaying
  /\ currentStep >= 2
  /\ animationSpeed # config.animationSpeed
  /\ interval = <<delay(animationSpeed)>>

----------------------------------------------------------------------------
\* C39: in the App, whenever isPlaying is false the Step Forward control is
\* enabled, at every currentStep: a press of it dispatches a STEP_FORWARD.

StepForwardAvailable == ~isPlaying => canStepForward(state)

====
